---- MODULE Spec2Model ----
(***************************************************************************)
(* One session (ConnectionHandler) of the xiaozhi voice server:            *)
(* the router on the event loop, the generation workers of the executor,   *)
(* the TTS serializer thread, the audio emitter thread, and the frames     *)
(* they write to the websocket.                                            *)
(***************************************************************************)
EXTENDS Integers, Sequences, FiniteSets, TLC

\* ------------------------------------------------------------------ bounds
\* turns (startToChat invocations) of one session
MaxTurns == 2
\* inbound abort frames of one session
MaxAborts == 1
\* content deltas of the LLM streams of one session
MaxDeltas == 2
\* opus packets of one synthesized segment
MaxFrames == 1
\* nested chat_with_function_calling(tool_call=True) calls of one worker
MaxDepth == 1
\* inbound listen frames (start, stop, detect without text) of one session
MaxListen == 1
\* inbound audio frames of a session that also aborts a reply or sends a
\* listen frame
MaxShort == 2
\* inbound audio frames of a session whose client is silent
MaxSilent == 2
\* peer closes and inbound text frames that are no message of the protocol
MaxMisc == 1
\* first content deltas of a session that open a markdown-style tool call
MaxMarkdown == 1
\* inbound audio frames that arrive while ingest is suspended
MaxSuspended == 1
\* inbound iot frames of a session that is followed for its capabilities
MaxIot == 3
\* states of one iot frame
MaxStates == 1
\* threads that call the generator of auth codes, the codes that random
\* draws, and the days the clock runs
MaxThreads == 2
MaxCodes == 2
MaxDays == 4
\* connections the server accepts, and the hello frames and chats of them all
MaxConns == 2
MaxHello == 1
MaxChats == 2

\* --------------------------------------------------------- program constants
\* receiveAudioHandle.py: an utterance shorter than this is not recognized
MinAsrFrames == 10
\* receiveAudioHandle.py: frames of pre-roll kept while nobody speaks
PreRoll == 5

\* auth_code_gen.py: _code_timeout, three days (the clock counts days)
CodeTimeout == 3

\* ------------------------------------------------------------------ loads
\* What the environment sends in one session.  The sessions explored:
\*   one reply in full depth, started by a text, which the client may abort
\*   and in which the LLM may call tools in either style;
\*   overlapping turns started by texts;
\*   a reply the client speaks into, aborts and then speaks;
\*   a reply during which the client speaks and sends a listen frame;
\*   two spoken utterances, each long enough for ASR;
\*   a reply during which the peer closes or sends a frame that is no
\*   message of the protocol;
\*   replies without words (a piece of music, an empty answer) during which
\*   the client is silent;
\*   an utterance long enough for ASR that the client frames with listen
\*   frames.
Loads ==
  { [turns |-> 1, aborts |-> MaxAborts, deltas |-> MaxDeltas,
     depth |-> MaxDepth, listen |-> 0, audio |-> 0, misc |-> 0,
     md |-> MaxMarkdown, iot |-> 0,
     suspended |-> 0],
    [turns |-> MaxTurns, aborts |-> MaxAborts, deltas |-> MaxDeltas - 1,
     depth |-> 0, listen |-> 0, audio |-> 0, misc |-> 0, md |-> 0, iot |-> 0,
     suspended |-> 0],
    [turns |-> 1, aborts |-> MaxAborts, deltas |-> MaxDeltas - 1,
     depth |-> 0, listen |-> 0, audio |-> MaxShort, misc |-> 0, md |-> 0, iot |-> 0,
     suspended |-> MaxSuspended],
    [turns |-> 1, aborts |-> 0, deltas |-> MaxDeltas - 1,
     depth |-> 0, listen |-> MaxListen, audio |-> MaxShort, misc |-> 0,
     md |-> 0, iot |-> 0,
     suspended |-> 0],
    [turns |-> 1, aborts |-> 0, deltas |-> MaxDeltas - 1,
     depth |-> 0, listen |-> 0, audio |-> 2 * MinAsrFrames, misc |-> 0, md |-> 0, iot |-> 0,
     suspended |-> 0],
    [turns |-> 1, aborts |-> 0, deltas |-> MaxDeltas - 1,
     depth |-> 0, listen |-> 0, audio |-> 0, misc |-> MaxMisc, md |-> 0, iot |-> 0,
     suspended |-> 0],
    [turns |-> MaxTurns, aborts |-> 0, deltas |-> 0,
     depth |-> 0, listen |-> 0, audio |-> MaxSilent, misc |-> 0, md |-> 0, iot |-> 0,
     suspended |-> 0],
    [turns |-> 0, aborts |-> 0, deltas |-> 0,
     depth |-> 0, listen |-> MaxListen + 1, audio |-> MinAsrFrames + 1,
     misc |-> 0, md |-> 0, iot |-> 0,
     suspended |-> 0] }

\* ------------------------------------------------------------------ text
\* Characters by what the code does with them:
\*   "a"  an ordinary character
\*   "p"  a terminator that is_punctuation_or_emoji strips ("。", "！")
\*   "q"  a terminator that it keeps ("？", "；", "：")
\*   "e"  an emoji, comma or blank: stripped, no terminator
\*   "F"  the fence of a code block (three backquotes, taken as one)
\*   "T"  the tag <tool_call>
\*   "J"  the text of a JSON object
\* The last three are ordinary characters to the segmentation.
punctuations == {"p", "q"}

is_punctuation_or_emoji(c) == c \in {"p", "e"}

\* the deltas an LLM stream is made of
Deltas == {<<"a">>, <<"a", "p">>, <<"e", "p">>, <<"q">>}

\* first content deltas with which an LLM opens a tool call in markdown
\* style: the fence alone, the fence with more text, the tag within text
MarkdownDeltas == {<<"F">>, <<"F", "a">>, <<"a", "T">>}

\* the content is the fence, or the tag is in the content
is_tool_call_content(content) ==
  content = <<"F">> \/ \E n \in DOMAIN content : content[n] = "T"

\* the text holds text of a tool call
HasToolText(text) == \E n \in DOMAIN text : text[n] \in {"F", "T", "J"}

RECURSIVE StripLeft(_)
StripLeft(s) ==
  IF s # <<>> /\ is_punctuation_or_emoji(Head(s)) THEN StripLeft(Tail(s)) ELSE s

RECURSIVE StripRight(_)
StripRight(s) ==
  IF s # <<>> /\ is_punctuation_or_emoji(s[Len(s)])
  THEN StripRight(SubSeq(s, 1, Len(s) - 1)) ELSE s

get_string_no_punctuation_or_emoji(s) == StripRight(StripLeft(s))

\* current_text.rfind over all punctuations, 0-based; -1 when there is none
last_punct_pos(s) ==
  LET P == {n \in 1..Len(s) : s[n] \in punctuations}
  IN IF P = {} THEN -1 ELSE (CHOOSE n \in P : \A m \in P : m <= n) - 1

\* full_text[processed_chars:]
From(s, k) == SubSeq(s, k + 1, Len(s))

\* ------------------------------------------------------------------ state
VARIABLES
  use_function_call_mode,    \* config: selected_module.Intent = function_call
  stop_event,                \* set by close()
  ws_closed,                 \* the websocket is closed
  router,                    \* handle_connection: "loop", or "done" (returned)
  saved,                     \* calls of memory.save_memory by this session
  tts_alive,                 \* _tts_priority_thread has not returned
  emit_alive,                \* _audio_play_priority_thread has not returned
  client_abort,
  client_listen_mode,
  client_have_voice,
  client_voice_stop,
  client_no_voice_last_time, \* 0: unset (0.0), 1: a time stamp
  client_have_voice_last_time, \* 0: the value 0, 1: a time stamp
  asr_audio,                 \* len(conn.asr_audio)
  asr_server_receive,
  llm_finish_task,
  dialogue,                  \* the transcript: turns [role, t, id, raw]
  tts_first_text_index,
  tts_last_text_index,
  close_after_chat,
  tts_queue,                 \* futures of speak_and_play, in submission order
  audio_play_queue,          \* (opus_datas, text, text_index) items
  workers,                   \* the generation workers in the executor, by turn
  emitter,                   \* where sendAudioMessage stands
  iot_descriptors,           \* conn.iot_descriptors: capabilities by name
  iot_states,                \* the states of the iot frame handled last
  _used_codes,               \* AuthCodeGenerator._used_codes
  _code_timestamps,          \* AuthCodeGenerator._code_timestamps
  _lock,                     \* AuthCodeGenerator._lock: 0 free, else its holder
  threads,                   \* the callers of the generator, where each stands
  now,                       \* time.time(), in days
  load,                      \* what the environment has still to send
  hist,                      \* what was written to the websocket, and the
                             \* turns and ASR calls, in the order they happened
  auth_config,               \* config["server"]["auth"]
  conns,                     \* the connections of the server process
  xiaozhi_session_id,        \* config["xiaozhi"]["session_id"], one dict
  memory,                    \* the memory provider, one instance
  server_log                 \* welcome frames, memory queries and saves

ServerVars == <<auth_config, conns, xiaozhi_session_id, memory, server_log>>

IotVars == <<iot_descriptors, iot_states>>

CodeVars == <<_used_codes, _code_timestamps, _lock, threads, now>>

vars == <<use_function_call_mode, stop_event, ws_closed, router, saved,
          tts_alive, emit_alive, ServerVars, CodeVars, IotVars, client_abort, client_listen_mode,
          client_have_voice, client_voice_stop, client_no_voice_last_time,
                 client_have_voice_last_time,
          asr_audio, asr_server_receive, llm_finish_task, dialogue,
          tts_first_text_index, tts_last_text_index, close_after_chat,
          tts_queue, audio_play_queue, workers, emitter, load, hist>>

Turns == 1..MaxTurns

\* an entry of hist.  k: "asr" (speech_to_text called), "turn" (startToChat),
\* "listen" (a listen frame without text, src: its state, i: the frames in
\* the utterance buffer), "llm_error" (the
\* LLM call of a worker raised), "tool_error" (a worker could not parse a
\* markdown-style tool call), "close" (the websocket is closed, src: by
\* what), or the frame written: "stt", "sentence_start", "audio",
\* "sentence_end", "stop", "echo" (an inbound text sent back).  t, d, i, q: the turn, call depth, text_index and submission number
\* of the segment a frame belongs to (t = 0: the stop of handleAbortMessage).
\* ab: the turns active when an abort was handled.  src, w: how a turn began
\* and what startToChat did with it.  text: what speech_to_text returned.
Ev(k, t, d, i, q) ==
  [k |-> k, t |-> t, d |-> d, i |-> i, q |-> q, ab |-> {}, src |-> "", w |-> "",
   text |-> <<>>]

AbortEv(active) == [Ev("stop", 0, 0, 0, 0) EXCEPT !.ab = active]

\* the websocket is closed: by check_direct_exit ("exit"), by
\* sendAudioMessage after the stop of the reply of turn t ("reply"), by the
\* peer ("peer"), or after an exception in a handler ("raise")
CloseEv(src, t) == [Ev("close", t, 0, 0, 0) EXCEPT !.src = src]

TurnEv(t, src, w) == [Ev("turn", t, 0, 0, 0) EXCEPT !.src = src, !.w = w]

NumTurns == Cardinality({n \in DOMAIN hist : hist[n].k = "turn"})

\* no worker was submitted for the turn, or it has returned
\* nq: segments submitted
NoWorker == [kind |-> "none", nq |-> 0, stack |-> <<>>]

Running(t) == workers[t].stack # <<>>

\* one activation of chat / chat_with_function_calling; text:
\* response_message, args: content_arguments
Frame(tool_call) ==
  [pc |-> "start", tool_call |-> tool_call, text |-> <<>>, pchars |-> 0,
   idx |-> 0, args |-> <<>>]

NoItem == [t |-> 0, d |-> 0, q |-> 0, i |-> 0, n |-> 0, txt |-> FALSE]

\* the turns whose reply is still in the pipeline
ActiveTurns ==
  {t \in Turns : Running(t)}
    \cup {tts_queue[n].t : n \in DOMAIN tts_queue}
    \cup {audio_play_queue[n].t : n \in DOMAIN audio_play_queue}
    \cup (IF emitter.pc = "idle" THEN {} ELSE {emitter.item.t})

\* ------------------------------------------------------------------ server
\* What the sessions of one server process share: the config object (its
\* auth section, and the welcome body config["xiaozhi"]) and the memory
\* provider.
Conns == 1..MaxConns

\* the device-id header; "": there is none
DeviceIds == {"", "d1", "d2"}

\* the authorization header as auth_header.split(" ") gives it: no header,
\* "Bearer", "Bearer ", "Bearer t1", "Bearer t2", "Bearer t1 x", "bearer t1"
\* and "t1"
Authorizations ==
  { <<"">>, <<"Bearer">>, <<"Bearer", "">>, <<"Bearer", "t1">>,
    <<"Bearer", "t2">>, <<"Bearer", "t1", "x">>, <<"bearer", "t1">>, <<"t1">> }

Headers == [device_id : DeviceIds, authorization : Authorizations]

\* config["server"]["auth"]: enabled, allowed_devices and the keys of tokens
AuthConfigs ==
  [enabled : BOOLEAN, allowed_devices : {{}, {"d1"}}, tokens : {{}, {"t1"}}]

\* a connection: phase "new" (not yet made), "open" (accepted), "rejected",
\* "closed" (torn down); chats: the turns of its transcript
NoConn == [phase |-> "new", device_id |-> "", chats |-> 0]

\* the memory provider (mem_local_short): role_id, short_momery, and the
\* memory file by role id.  A memory is the set of the devices whose
\* conversations went into it.
NoMemory ==
  [role_id |-> "", short_momery |-> {}, file |-> [d \in DeviceIds |-> {}],
   stored |-> {}]

\* the server of a session that is followed alone
NoServer ==
  /\ auth_config = [enabled |-> FALSE, allowed_devices |-> {}, tokens |-> {}]
  /\ conns = [c \in Conns |-> NoConn]
  /\ xiaozhi_session_id = 0
  /\ memory = NoMemory
  /\ server_log = <<>>

\* the session after construction: what ConnectionHandler.__init__ sets
Session ==
  /\ use_function_call_mode \in BOOLEAN
  /\ stop_event = FALSE
  /\ ws_closed = FALSE
  /\ router = "loop"
  /\ saved = 0
  /\ tts_alive = TRUE
  /\ emit_alive = TRUE
  /\ client_abort = FALSE
  /\ client_listen_mode = "auto"
  /\ client_have_voice = FALSE
  /\ client_voice_stop = FALSE
  /\ client_no_voice_last_time = 0
  /\ client_have_voice_last_time = 0
  /\ asr_audio = 0
  /\ asr_server_receive = TRUE
  /\ llm_finish_task = FALSE
  /\ dialogue = <<[role |-> "system", t |-> 0, id |-> 0, raw |-> FALSE]>>
  /\ tts_first_text_index = -1
  /\ tts_last_text_index = -1
  /\ close_after_chat = FALSE
  /\ tts_queue = <<>>
  /\ audio_play_queue = <<>>
  /\ workers = [t \in Turns |-> NoWorker]
  /\ emitter = [pc |-> "idle", item |-> NoItem, left |-> 0]
  /\ iot_descriptors = <<>>
  /\ iot_states = <<>>
  /\ _used_codes = {}
  /\ _code_timestamps = <<>>
  /\ _lock = 0
  /\ threads = [th \in 1..MaxThreads |-> [pc |-> "idle", op |-> "", code |-> 0, expired |-> {}]]
  /\ now = 0
  /\ hist = <<>>

\* one session that has been accepted, and what the environment sends it
Init ==
  /\ Session
  /\ load \in Loads
  /\ NoServer

\* ------------------------------------------------------- generation worker
\* What one step of a worker reads and writes of the session, as a record:
\* first/last (tts_*_text_index), fin (llm_finish_task), dlg (dialogue),
\* ttsq (tts_queue), nq (segments the worker has submitted); crashed: an
\* exception left the worker (executor.submit after executor.shutdown).
Ctx(t) ==
  [first |-> tts_first_text_index, last |-> tts_last_text_index,
   fin |-> llm_finish_task, dlg |-> dialogue, ttsq |-> tts_queue,
   nq |-> workers[t].nq, crashed |-> FALSE]

\* a turn of the transcript: the turn of the session it belongs to, the id
\* of its tool-call record or its tool_call_id (0: none), and whether its
\* content holds text of a tool call
Message(role, t, id) == [role |-> role, t |-> t, id |-> id, raw |-> FALSE]

\* recode_first_last_text(text, text_index)
recode_first_last_text(c, idx) ==
  [c EXCEPT !.first = IF c.first = -1 THEN idx ELSE c.first, !.last = idx]

\* recode_first_last_text; executor.submit(speak_and_play); tts_queue.put
Submit(c, t, d, idx) ==
  LET c1 == recode_first_last_text(c, idx)
  IN IF stop_event
     THEN [c1 EXCEPT !.crashed = TRUE]
     ELSE [c1 EXCEPT
             !.ttsq = Append(@, [t |-> t, d |-> d, i |-> idx, q |-> c1.nq + 1]),
             !.nq = @ + 1]

\* a loop body that advances processed_chars by the length of the stripped
\* segment
Segment_stripped_length(c, f, t, d) ==
  LET cur == From(f.text, f.pchars)
      pos == last_punct_pos(cur)
      raw == SubSeq(cur, 1, pos + 1)
      seg == get_string_no_punctuation_or_emoji(raw)
  IN IF pos # -1 /\ seg # <<>>
     THEN [c |-> Submit(c, t, d, f.idx + 1),
           f |-> [f EXCEPT !.idx = @ + 1, !.pchars = @ + Len(seg)]]
     ELSE [c |-> c, f |-> f]

\* the body of the streaming loop after response_message.append(content):
\* cut at the last terminator, submit the stripped segment if it is not empty
Segment(c, f, t, d) ==
  LET cur == From(f.text, f.pchars)
      pos == last_punct_pos(cur)
      raw == SubSeq(cur, 1, pos + 1)
      seg == get_string_no_punctuation_or_emoji(raw)
  IN IF pos # -1 /\ seg # <<>>
     THEN [c |-> Submit(c, t, d, f.idx + 1),
           f |-> [f EXCEPT !.idx = @ + 1, !.pchars = @ + Len(raw)]]
     ELSE [c |-> c, f |-> f]

\* the code after the loop: the residual text, llm_finish_task, the
\* assistant turn (chat appends it always, chat_with_function_calling only
\* when response_message is not empty)
Finish(c, f, t, d, kind) ==
  LET rest == From(f.text, f.pchars)
      c1 == IF rest # <<>> /\ get_string_no_punctuation_or_emoji(rest) # <<>>
            THEN Submit(c, t, d, f.idx + 1) ELSE c
  IN IF c1.crashed THEN c1
     ELSE [c1 EXCEPT
             !.fin = TRUE,
             !.dlg = IF kind = "fc" /\ f.text = <<>> THEN @
                     ELSE Append(@, [Message("assistant", t, 0)
                                       EXCEPT !.raw = HasToolText(f.text)])]

\* the callers of a nested chat_with_function_calling resume after
\* _handle_function_result, innermost first
RECURSIVE Unwind(_, _, _, _)
Unwind(c, stack, t, kind) ==
  IF stack = <<>> \/ c.crashed THEN c
  ELSE Unwind(Finish(c, stack[Len(stack)], t, Len(stack) - 1, kind),
              SubSeq(stack, 1, Len(stack) - 1), t, kind)

Top(t) == workers[t].stack[Len(workers[t].stack)]

Below(t) == SubSeq(workers[t].stack, 1, Len(workers[t].stack) - 1)

Depth(t) == Len(workers[t].stack) - 1

\* the session after a worker step that left it with context c
Apply(c) ==
  /\ tts_first_text_index' = c.first
  /\ tts_last_text_index' = c.last
  /\ llm_finish_task' = c.fin
  /\ dialogue' = c.dlg
  /\ tts_queue' = c.ttsq

\* chat / chat_with_function_calling returns (or dies): the worker is done,
\* but for chat_and_close, which has close_after_chat still to set
Return(c, t) ==
  /\ Apply(c)
  /\ workers' = [workers EXCEPT ![t] =
       [@ EXCEPT !.nq = c.nq,
                 !.stack = IF workers[t].kind = "close" /\ ~c.crashed
                           THEN <<[Frame(FALSE) EXCEPT !.pc = "close"]>>
                           ELSE <<>>]]
  /\ UNCHANGED close_after_chat

Continue(c, t, f) ==
  /\ Apply(c)
  /\ workers' = [workers EXCEPT ![t] =
                   [@ EXCEPT !.stack = Append(Below(t), f), !.nq = c.nq]]
  /\ UNCHANGED close_after_chat

RouterVars == <<use_function_call_mode, stop_event, ws_closed, router, saved,
                tts_alive, emit_alive, ServerVars, CodeVars, IotVars, client_abort,
                client_listen_mode, client_have_voice, client_voice_stop,
                client_no_voice_last_time,
                 client_have_voice_last_time, asr_audio, asr_server_receive>>

\* a user turn also for a tool-result follow-up
UserTurn_always(c, t) == [c EXCEPT !.dlg = Append(@, Message("user", t, 0))]

\* the user turn (unless this is a tool-result follow-up)
UserTurn(c, t) ==
  IF Top(t).tool_call THEN c
  ELSE [c EXCEPT !.dlg = Append(@, Message("user", t, 0))]

\* chat / chat_with_function_calling up to the loop: the user turn, the
\* memory query and the LLM call succeed, llm_finish_task = False
ChatStart(t) ==
  /\ Running(t) /\ Top(t).pc = "start"
  /\ Continue([UserTurn(Ctx(t), t) EXCEPT !.fin = FALSE], t,
              [Top(t) EXCEPT !.pc = "stream"])
  /\ UNCHANGED <<RouterVars, audio_play_queue, emitter, load, hist>>

\* the memory query or the LLM call raises: return None
ChatLLMError(t) ==
  /\ Running(t) /\ Top(t).pc = "start"
  /\ LET c == Unwind(UserTurn(Ctx(t), t), Below(t), t, workers[t].kind)
     IN Return(c, t)
  /\ hist' = Append(hist, Ev("llm_error", t, Depth(t), 0, 0))
  /\ UNCHANGED <<RouterVars, audio_play_queue, emitter, load>>

\* the body of the loop for a content that is text:
\* response_message.append(content), the test of client_abort, the segment
Content(t, delta) ==
  LET f == [Top(t) EXCEPT !.text = @ \o delta]
  IN IF client_abort
     THEN \* break: the code after the loop runs
          Return(Unwind(Ctx(t), Append(Below(t), f), t, workers[t].kind), t)
     ELSE LET r == Segment(Ctx(t), f, t, Depth(t))
          IN IF r.c.crashed THEN Return(r.c, t)
             ELSE Continue(r.c, t, r.f)

\* one content delta arrives
ChatDelta(t, delta) ==
  /\ Running(t) /\ Top(t).pc = "stream" /\ load.deltas > 0
  /\ load' = [load EXCEPT !.deltas = @ - 1]
  /\ Content(t, delta)
  /\ UNCHANGED <<RouterVars, audio_play_queue, emitter, hist>>

\* the first content delta of chat_with_function_calling is one with which
\* an LLM opens a markdown-style tool call.  If the code takes it for one,
\* tool_call_flag is set and the content goes to content_arguments, as all
\* content after it (client_abort is not tested in that branch); if not, it
\* is text.
ChatMarkdownDelta(t, delta) ==
  /\ Running(t) /\ Top(t).pc = "stream" /\ workers[t].kind = "fc"
  /\ Top(t).text = <<>> /\ load.md > 0
  /\ load' = [load EXCEPT !.md = @ - 1]
  /\ IF is_tool_call_content(delta)
     THEN Continue(Ctx(t), t, [Top(t) EXCEPT !.pc = "md", !.args = delta])
     ELSE Content(t, delta)
  /\ UNCHANGED <<RouterVars, audio_play_queue, emitter, hist>>

\* the stream ends without a tool call
ChatEnd(t) ==
  /\ Running(t) /\ Top(t).pc = "stream"
  /\ Return(Unwind(Ctx(t), workers[t].stack, t, workers[t].kind), t)
  /\ UNCHANGED <<RouterVars, audio_play_queue, emitter, load, hist>>

\* a tool_call delta with an id arrives (chat_with_function_calling):
\* tool_call_flag is set, what follows is buffered as arguments, and the
\* tool is dispatched when the stream has ended
ChatToolDelta(t) ==
  /\ Running(t) /\ Top(t).pc \in {"stream", "md"} /\ workers[t].kind = "fc"
  /\ workers' = [workers EXCEPT ![t] =
                   [@ EXCEPT !.stack = Append(Below(t), [Top(t) EXCEPT !.pc = "tool"])]]
  /\ UNCHANGED <<RouterVars, audio_play_queue, emitter, load, hist, dialogue,
                 tts_first_text_index, tts_last_text_index, llm_finish_task,
                 tts_queue, close_after_chat>>

\* What the code after the loop makes of content_arguments when there is no
\* function id: "ok" (a JSON object with name and arguments), "none" (no
\* JSON object found), "bad" (an object that is no JSON or lacks name or
\* arguments)
Parses == {"ok", "none", "bad"}

\* a parse error that surfaces nothing
parse_error_text_nothing(args, parse) == <<>>

\* what a parse error appends to response_message: content_arguments, or
\* the object extract_json_from_string found in it
parse_error_text(args, parse) == IF parse = "none" THEN args ELSE <<"J">>

\* the stream ends in markdown mode: the tool call is parsed; it is
\* dispatched, or on a parse error its text joins response_message and the
\* code after the dispatch runs
ChatEndMarkdown(t, parse) ==
  /\ Running(t) /\ Top(t).pc = "md"
  /\ IF parse = "ok"
     THEN /\ Continue(Ctx(t), t, [Top(t) EXCEPT !.pc = "tool"])
          /\ UNCHANGED hist
     ELSE /\ LET f == [Top(t) EXCEPT
                        !.text = @ \o parse_error_text(Top(t).args, parse)]
             IN Return(Unwind(Ctx(t), Append(Below(t), f), t, workers[t].kind), t)
          /\ hist' = Append(hist, Ev("tool_error", t, Depth(t), 0, 0))
  /\ UNCHANGED <<RouterVars, audio_play_queue, emitter, load>>

\* chat_and_close after chat() has returned: close_after_chat = True
ChatAndClose(t) ==
  /\ Running(t) /\ Top(t).pc = "close"
  /\ close_after_chat' = TRUE
  /\ workers' = [workers EXCEPT ![t] = [@ EXCEPT !.stack = <<>>]]
  /\ UNCHANGED <<RouterVars, audio_play_queue, emitter, load, hist, dialogue,
                 tts_first_text_index, tts_last_text_index, llm_finish_task,
                 tts_queue>>

ToolActions == {"RESPONSE", "REQLLM", "REQLLM_EMPTY", "NOTFOUND"}

\* a _handle_function_result that puts the tool turn before the record of
\* its call
handle_function_result_tool_first(c, action, t, d, idx) ==
  CASE action = "RESPONSE" ->
         LET c1 == Submit(c, t, d, idx)
         IN IF c1.crashed THEN c1
            ELSE [c1 EXCEPT !.dlg = Append(@, Message("assistant", t, 0))]
    [] action = "REQLLM" ->
         [c EXCEPT !.dlg = @ \o <<Message("tool", t, d + 1),
                                  Message("assistant", t, d + 1)>>]
    [] OTHER -> c

\* _handle_function_result(result, function_call_data, text_index + 1)
handle_function_result(c, action, t, d, idx) ==
  CASE action = "RESPONSE" ->
         LET c1 == Submit(c, t, d, idx)
         IN IF c1.crashed THEN c1
            ELSE [c1 EXCEPT !.dlg = Append(@, Message("assistant", t, 0))]
    [] action = "REQLLM" ->
         [c EXCEPT !.dlg = @ \o <<Message("assistant", t, d + 1),
                                  Message("tool", t, d + 1)>>]
    [] OTHER -> c

\* func_handler.handle_llm_function_call returns; its result is handled and,
\* unless generation is re-entered, the code after it runs
ToolResult(t, action) ==
  /\ Running(t) /\ Top(t).pc = "tool"
  /\ action = "REQLLM" => Depth(t) < load.depth
  /\ LET c == handle_function_result(Ctx(t), action, t, Depth(t), Top(t).idx + 1)
     IN IF c.crashed THEN Return(c, t)
        ELSE IF action = "REQLLM"
        THEN /\ Apply(c)
             /\ workers' = [workers EXCEPT ![t] =
                              [@ EXCEPT !.stack = Append(@, Frame(TRUE)), !.nq = c.nq]]
             /\ UNCHANGED close_after_chat
        ELSE Return(Unwind(c, workers[t].stack, t, workers[t].kind), t)
  /\ UNCHANGED <<RouterVars, audio_play_queue, emitter, load, hist>>

\* ------------------------------------------------------------ TTS serializer
\* a serializer that takes the newest future instead of the oldest
NextFuture_newest == Len(tts_queue)

\* which future _tts_priority_thread waits for: tts_queue.get() is FIFO
NextFuture ==
  IF tts_queue = <<>> THEN 0
  ELSE CHOOSE n \in DOMAIN tts_queue : \A m \in DOMAIN tts_queue : n <= m

RemoveAt(q, n) == SubSeq(q, 1, n - 1) \o SubSeq(q, n + 1, Len(q))

\* What future.result(timeout=tts_timeout) gives for the future waited for,
\* whatever the other futures of the pool have done by then: speak_and_play
\* returned a file of n opus packets ("ok"), it returned no file ("none"),
\* or it has not returned in time ("timeout").
TtsResults == {"ok", "none", "timeout"}

\* the item _tts_priority_thread makes of a future: with a timeout text
\* stays None (txt is FALSE) and text_index stays 0
Item(fut, res, n) ==
  [t |-> fut.t, d |-> fut.d, q |-> fut.q,
   i |-> IF res = "timeout" THEN 0 ELSE fut.i,
   n |-> IF res = "ok" THEN n ELSE 0,
   txt |-> (res # "timeout")]

\* one round of _tts_priority_thread, from the return of tts_queue.get() to
\* the next call of it: the future leaves tts_queue, its item joins
\* audio_play_queue unless client_abort is set, and the thread returns when
\* it finds stop_event set at the head of its loop
TtsTake(res, n) ==
  /\ tts_alive
  /\ NextFuture \in DOMAIN tts_queue
  /\ tts_alive' = ~stop_event
  /\ tts_queue' = RemoveAt(tts_queue, NextFuture)
  /\ audio_play_queue' =
       IF ~client_abort
       THEN Append(audio_play_queue, Item(tts_queue[NextFuture], res, n))
       ELSE audio_play_queue
  /\ UNCHANGED <<ServerVars, CodeVars, IotVars, router, saved, emit_alive, use_function_call_mode,
                 stop_event, ws_closed, client_abort, client_listen_mode,
                 client_have_voice, client_voice_stop, client_no_voice_last_time,
                 client_have_voice_last_time,
                 asr_audio, asr_server_receive, emitter, load, hist, dialogue,
                 tts_first_text_index, tts_last_text_index, llm_finish_task,
                 workers, close_after_chat>>

\* ------------------------------------------------------------- audio emitter
clearSpeakStatus ==
  /\ asr_server_receive' = TRUE
  /\ tts_last_text_index' = -1
  /\ tts_first_text_index' = -1

FrameEv(k, item) == Ev(k, item.t, item.d, item.i, item.q)

\* _audio_play_priority_thread takes an item; sendAudioMessage writes
\* sentence_start
EmitStart ==
  /\ emit_alive /\ ~ws_closed
  /\ emitter.pc = "idle" /\ audio_play_queue # <<>>
  /\ LET item == Head(audio_play_queue)
     IN /\ emitter' = [pc |-> "frames", item |-> item, left |-> item.n]
        /\ hist' = Append(hist, FrameEv("sentence_start", item))
  /\ audio_play_queue' = Tail(audio_play_queue)
  /\ UNCHANGED <<RouterVars, load, dialogue, tts_first_text_index,
                 tts_last_text_index, llm_finish_task, tts_queue, workers,
                 close_after_chat>>

\* the frame loop: return on client_abort, else write one opus packet
EmitFrame ==
  /\ emit_alive /\ ~ws_closed
  /\ emitter.pc = "frames" /\ emitter.left > 0
  /\ IF client_abort
     THEN /\ emitter' = [pc |-> "idle", item |-> NoItem, left |-> 0]
          /\ UNCHANGED hist
     ELSE /\ emitter' = [emitter EXCEPT !.left = @ - 1]
          /\ hist' = Append(hist, FrameEv("audio", emitter.item))
  /\ UNCHANGED <<RouterVars, load, dialogue, tts_first_text_index,
                 tts_last_text_index, llm_finish_task, tts_queue,
                 audio_play_queue, workers, close_after_chat>>

\* the last segment of a finished reply, as sendAudioMessage decides it
IsLast(item) == llm_finish_task /\ item.i = tts_last_text_index

\* after the loop: sentence_end, and for the last segment stop,
\* clearSpeakStatus and, with close_after_chat, close(); after close() the
\* thread finds stop_event set at the head of its loop and returns
EmitEnd ==
  /\ emit_alive /\ ~ws_closed
  /\ emitter.pc = "frames" /\ emitter.left = 0
  /\ emitter' = [pc |-> "idle", item |-> NoItem, left |-> 0]
  /\ IF IsLast(emitter.item)
     THEN /\ hist' = hist \o <<FrameEv("sentence_end", emitter.item),
                               FrameEv("stop", emitter.item)>>
                         \o (IF close_after_chat
                             THEN <<CloseEv("reply", emitter.item.t)>>
                             ELSE <<>>)
          /\ clearSpeakStatus
          /\ stop_event' = close_after_chat
          /\ ws_closed' = close_after_chat
          /\ emit_alive' = ~close_after_chat
     ELSE /\ hist' = Append(hist, FrameEv("sentence_end", emitter.item))
          /\ UNCHANGED <<asr_server_receive, tts_last_text_index,
                         tts_first_text_index, stop_event, ws_closed,
                         emit_alive>>
  /\ UNCHANGED <<ServerVars, CodeVars, IotVars, router, saved, tts_alive,
                 use_function_call_mode, client_abort, client_listen_mode,
                 client_have_voice, client_voice_stop, client_no_voice_last_time,
                 client_have_voice_last_time,
                 asr_audio, dialogue, llm_finish_task, tts_queue,
                 audio_play_queue, workers, close_after_chat, load>>

\* sendAudioMessage on a closed websocket: the send raises, the item is
\* given up with nothing written, and _audio_play_priority_thread goes back
\* to the head of its loop, where it returns if stop_event is set
EmitFail ==
  /\ emit_alive /\ ws_closed
  /\ emitter.pc # "idle" \/ audio_play_queue # <<>>
  /\ emitter' = [pc |-> "idle", item |-> NoItem, left |-> 0]
  /\ audio_play_queue' = IF emitter.pc = "idle" THEN Tail(audio_play_queue)
                         ELSE audio_play_queue
  /\ emit_alive' = ~stop_event
  /\ UNCHANGED <<ServerVars, CodeVars, IotVars, router, saved, tts_alive, use_function_call_mode,
                 stop_event, ws_closed, client_abort, client_listen_mode,
                 client_have_voice, client_voice_stop, client_no_voice_last_time,
                 client_have_voice_last_time,
                 asr_audio, asr_server_receive, load, hist, dialogue,
                 tts_first_text_index, tts_last_text_index, llm_finish_task,
                 tts_queue, workers, close_after_chat>>

\* a handle_user_intent that asks the classifier in function_call mode too
StartOutcomes_classifier_always ==
  {"exit", "gen", "end_chat", "music", "nomusic"}

\* ------------------------------------------------------------------- router
\* What handle_user_intent makes of a text: "exit" (it equals an entry of
\* CMD_exit), "gen" (not handled: the reply is generated), and with the
\* classifier "end_chat", "music" (a file is queued) and "nomusic"
\* (play_local_music returns without queueing).
StartOutcomes ==
  IF use_function_call_mode THEN {"exit", "gen"}
  ELSE {"exit", "gen", "end_chat", "music", "nomusic"}

NewWorker(kind) == [kind |-> kind, nq |-> 0, stack |-> <<Frame(FALSE)>>]

\* handle_connection is in its loop and the websocket is open: the next
\* inbound frame is routed
Routing == router = "loop" /\ ~ws_closed

\* handle_connection leaves its loop: finally, memory.save_memory
Teardown ==
  /\ router' = "done"
  /\ saved' = saved + 1

\* startToChat(conn, text), called with asr_server_receive = recv, after the
\* events pre; check_direct_exit calls close()
startToChat(pre, src, out, recv) ==
  LET t == NumTurns + 1
      kind == IF out = "end_chat" THEN "close"
              ELSE IF use_function_call_mode THEN "fc" ELSE "chat"
      w == IF out = "gen" THEN kind ELSE out
      stt == IF out \in {"gen", "end_chat", "music"}
             THEN <<Ev("stt", t, 0, 0, 0)>> ELSE <<>>
      end == IF out = "exit" THEN <<CloseEv("exit", t)>> ELSE <<>>
  IN /\ hist' = hist \o pre \o <<TurnEv(t, src, w)>> \o stt \o end
     /\ stop_event' = (out = "exit")
     /\ ws_closed' = (out = "exit")
     /\ asr_server_receive' = IF out = "gen" THEN recv ELSE TRUE
     /\ workers' = IF out \in {"gen", "end_chat"}
                   THEN [workers EXCEPT ![t] = NewWorker(kind)] ELSE workers
     /\ IF out = "music"
        THEN \* play_local_music: a file of n opus packets
             /\ tts_first_text_index' = 0
             /\ tts_last_text_index' = 0
             /\ llm_finish_task' = TRUE
             /\ \E n \in 1..MaxFrames :
                  audio_play_queue' = Append(audio_play_queue,
                    [t |-> t, d |-> 0, i |-> 0, q |-> 1, n |-> n, txt |-> TRUE])
        ELSE UNCHANGED <<tts_first_text_index, tts_last_text_index,
                         llm_finish_task, audio_play_queue>>

\* handleAbortMessage
HandleAbort ==
  /\ Routing /\ load.aborts > 0
  /\ load' = [load EXCEPT !.aborts = @ - 1]
  /\ client_abort' = TRUE
  /\ hist' = Append(hist, AbortEv(ActiveTurns))
  /\ clearSpeakStatus
  /\ UNCHANGED <<ServerVars, CodeVars, IotVars, router, saved, tts_alive, emit_alive,
                 use_function_call_mode, stop_event, ws_closed, client_listen_mode,
                 client_have_voice, client_voice_stop, client_no_voice_last_time,
                 client_have_voice_last_time,
                 asr_audio, llm_finish_task, dialogue, close_after_chat,
                 tts_queue, audio_play_queue, workers, emitter>>

\* msg_json["mode"] of a listen frame; "none": the frame has no mode.  A
\* session without listen frames leaves the mode alone.
ListenModes == IF load.listen > 0 THEN {"none", "auto", "manual"} ELSE {"none"}

SetMode(mode) ==
  client_listen_mode' = IF mode = "none" THEN client_listen_mode ELSE mode

\* handleTextMessage, a listen frame with state start, stop or detect
\* (without text)
HandleListen(mode, state) ==
  /\ Routing /\ load.listen > 0
  /\ load' = [load EXCEPT !.listen = @ - 1]
  /\ hist' = Append(hist, [Ev("listen", 0, 0, asr_audio, 0) EXCEPT !.src = state])
  /\ SetMode(mode)
  /\ CASE state = "start" ->
            /\ client_have_voice' = TRUE /\ client_voice_stop' = FALSE
            /\ UNCHANGED <<asr_server_receive, asr_audio>>
       [] state = "stop" ->
            /\ client_have_voice' = TRUE /\ client_voice_stop' = TRUE
            /\ UNCHANGED <<asr_server_receive, asr_audio>>
       [] state = "detect" ->
            /\ asr_server_receive' = FALSE /\ client_have_voice' = FALSE
            /\ asr_audio' = 0
            /\ UNCHANGED client_voice_stop
  /\ UNCHANGED <<ServerVars, CodeVars, IotVars, router, saved, tts_alive, emit_alive,
                 use_function_call_mode, stop_event, ws_closed, client_abort,
                 client_no_voice_last_time,
                 client_have_voice_last_time, llm_finish_task, dialogue,
                 tts_first_text_index, tts_last_text_index, close_after_chat,
                 tts_queue, audio_play_queue, workers, emitter>>

\* handleTextMessage, a listen frame without state: the mode is set, then
\* msg_json["state"] raises KeyError, which leaves handleTextMessage and the
\* loop of handle_connection: ws.close(), return
HandleListenNoState(mode) ==
  /\ Routing /\ load.listen > 0
  /\ load' = [load EXCEPT !.listen = @ - 1]
  /\ SetMode(mode)
  /\ hist' = Append(hist, CloseEv("raise", 0))
  /\ ws_closed' = TRUE
  /\ Teardown
  /\ UNCHANGED <<ServerVars, CodeVars, IotVars, tts_alive, emit_alive, use_function_call_mode,
                 stop_event, client_abort, client_have_voice,
                 client_voice_stop, client_no_voice_last_time,
                 client_have_voice_last_time, asr_audio,
                 asr_server_receive, llm_finish_task, dialogue,
                 tts_first_text_index, tts_last_text_index, close_after_chat,
                 tts_queue, audio_play_queue, workers, emitter>>

\* handleTextMessage, a listen frame with state detect and a text
HandleListenText(mode, out) ==
  /\ Routing /\ load.turns > 0
  /\ load' = [load EXCEPT !.turns = @ - 1]
  /\ SetMode(mode)
  /\ client_have_voice' = FALSE
  /\ asr_audio' = 0
  /\ startToChat(<<>>, "text", out, FALSE)
  /\ UNCHANGED <<ServerVars, CodeVars, IotVars, router, saved, tts_alive, emit_alive,
                 use_function_call_mode, client_abort, client_voice_stop,
                 client_no_voice_last_time,
                 client_have_voice_last_time, dialogue, close_after_chat,
                 tts_queue, emitter>>

\* What the VAD model finds in a frame (auto mode): "voice" (the last
\* window is speech), "silence" (no speech; with client_have_voice set,
\* less than silence_threshold_ms after client_have_voice_last_time),
\* "stop" (no speech, silence_threshold_ms or more after
\* client_have_voice_last_time), or "error" (the frame cannot be decoded:
\* is_vad returns None).  While client_have_voice_last_time is 0,
\* stop_duration is the time of day itself and no silence is shorter than
\* the threshold.  In manual mode the VAD is not asked.
VadOutcomes ==
  IF client_listen_mode # "auto" THEN {"manual"}
  ELSE IF ~client_have_voice THEN {"voice", "silence", "error"}
  ELSE IF client_have_voice_last_time = 0 THEN {"voice", "stop", "error"}
  ELSE {"voice", "silence", "stop", "error"}

\* hv: have_voice == False does not hold; chv, cvs, last: client_have_voice,
\* client_voice_stop and client_have_voice_last_time after the call
is_vad(v) ==
  IF client_listen_mode = "auto"
  THEN [hv |-> (v \in {"voice", "error"}),
        chv |-> (client_have_voice \/ v = "voice"),
        cvs |-> (client_voice_stop \/ v = "stop"),
        last |-> IF v = "voice" THEN 1 ELSE client_have_voice_last_time]
  ELSE [hv |-> client_have_voice, chv |-> client_have_voice,
        cvs |-> client_voice_stop, last |-> client_have_voice_last_time]

\* a handleAudioMessage in which speech cancels the reply in progress
AudioDropped_cancels ==
  /\ Routing /\ ~asr_server_receive /\ load.suspended > 0
  /\ load' = [load EXCEPT !.suspended = @ - 1]
  /\ client_abort' = TRUE
  /\ UNCHANGED <<ServerVars, CodeVars, IotVars, router, saved, tts_alive, emit_alive,
                 use_function_call_mode, stop_event, ws_closed,
                 client_listen_mode, client_have_voice, client_voice_stop,
                 client_no_voice_last_time, client_have_voice_last_time,
                 asr_audio, asr_server_receive, llm_finish_task, dialogue,
                 tts_first_text_index, tts_last_text_index, close_after_chat,
                 tts_queue, audio_play_queue, workers, emitter, hist>>

\* handleAudioMessage while ingest is suspended: the frame is dropped
AudioDropped ==
  /\ Routing /\ ~asr_server_receive /\ load.suspended > 0
  /\ load' = [load EXCEPT !.suspended = @ - 1]
  /\ UNCHANGED <<ServerVars, CodeVars, IotVars, router, saved, tts_alive, emit_alive,
                 use_function_call_mode, stop_event, ws_closed, client_abort,
                 client_listen_mode, client_have_voice, client_voice_stop,
                 client_no_voice_last_time, client_have_voice_last_time,
                 asr_audio, asr_server_receive, llm_finish_task, dialogue,
                 tts_first_text_index, tts_last_text_index, close_after_chat,
                 tts_queue, audio_play_queue, workers, emitter, hist>>

\* a frame that handleAudioMessage does not drop
AudioFrame ==
  /\ Routing /\ asr_server_receive /\ load.audio > 0

\* handleAudioMessage, no voice now and none before: the frame joins the
\* pre-roll; no_voice_close_connect starts or continues the idle timer
AudioSilence(v) ==
  /\ AudioFrame
  /\ load' = [load EXCEPT !.audio = @ - 1]
  /\ LET r == is_vad(v)
     IN /\ ~r.hv /\ ~r.chv
        /\ client_have_voice' = r.chv
        /\ client_voice_stop' = r.cvs
        /\ client_have_voice_last_time' = r.last
  /\ asr_audio' = IF asr_audio < PreRoll THEN asr_audio + 1 ELSE PreRoll
  /\ client_no_voice_last_time' = 1
  /\ UNCHANGED <<ServerVars, CodeVars, IotVars, router, saved, tts_alive, emit_alive,
                 use_function_call_mode, stop_event, ws_closed, client_abort,
                 client_listen_mode, asr_server_receive, llm_finish_task,
                 dialogue, tts_first_text_index, tts_last_text_index,
                 close_after_chat, tts_queue, audio_play_queue, workers,
                 emitter, hist>>

\* the same, when no_voice_close_connect finds the idle timeout passed: the
\* farewell prompt goes to startToChat
AudioIdle(v, out) ==
  /\ AudioFrame /\ load.turns > 0
  /\ client_no_voice_last_time # 0 /\ ~close_after_chat
  /\ load' = [load EXCEPT !.audio = @ - 1, !.turns = @ - 1]
  /\ LET r == is_vad(v)
     IN /\ ~r.hv /\ ~r.chv
        /\ client_have_voice' = r.chv
        /\ client_voice_stop' = r.cvs
  /\ asr_audio' = IF asr_audio < PreRoll THEN asr_audio + 1 ELSE PreRoll
  /\ close_after_chat' = TRUE
  /\ client_abort' = FALSE
  /\ startToChat(<<>>, "idle", out, FALSE)
  /\ UNCHANGED <<ServerVars, CodeVars, IotVars, router, saved, tts_alive, emit_alive,
                 use_function_call_mode, client_listen_mode,
                 client_no_voice_last_time,
                 client_have_voice_last_time, dialogue, tts_queue, emitter>>

\* handleAudioMessage with voice now or before, client_voice_stop not set:
\* the frame joins the utterance
AudioVoice(v) ==
  /\ AudioFrame
  /\ load' = [load EXCEPT !.audio = @ - 1]
  /\ LET r == is_vad(v)
     IN /\ r.hv \/ r.chv
        /\ ~r.cvs
        /\ client_have_voice' = r.chv
        /\ client_voice_stop' = r.cvs
        /\ client_have_voice_last_time' = r.last
  /\ client_no_voice_last_time' = 0
  /\ asr_audio' = IF asr_audio + 1 < MinAsrFrames THEN asr_audio + 1
                  ELSE MinAsrFrames
  /\ UNCHANGED <<ServerVars, CodeVars, IotVars, router, saved, tts_alive, emit_alive,
                 use_function_call_mode, stop_event, ws_closed, client_abort,
                 client_listen_mode, asr_server_receive, llm_finish_task,
                 dialogue, tts_first_text_index, tts_last_text_index,
                 close_after_chat, tts_queue, audio_play_queue, workers,
                 emitter, hist>>

\* an end of an utterance that leaves the utterance buffer as it is
VoiceStop_keeps_buffer(v) ==
  /\ AudioFrame
  /\ LET r == is_vad(v) IN (r.hv \/ r.chv) /\ r.cvs
  /\ client_no_voice_last_time' = 0
  /\ client_abort' = FALSE
  /\ asr_audio' = asr_audio
  /\ client_have_voice' = FALSE
  /\ client_have_voice_last_time' = 0
  /\ client_voice_stop' = FALSE

\* what all ends of an utterance do: client_abort = False, asr_audio.clear(),
\* reset_vad_states()
VoiceStop(v) ==
  /\ AudioFrame
  /\ LET r == is_vad(v) IN (r.hv \/ r.chv) /\ r.cvs
  /\ client_no_voice_last_time' = 0
  /\ client_abort' = FALSE
  /\ asr_audio' = 0
  /\ client_have_voice' = FALSE
  /\ client_have_voice_last_time' = 0
  /\ client_voice_stop' = FALSE

\* handleAudioMessage at client_voice_stop with an utterance of fewer than
\* MinAsrFrames frames: ingest goes on
AudioStopShort(v) ==
  /\ VoiceStop(v) /\ asr_audio + 1 < MinAsrFrames
  /\ load' = [load EXCEPT !.audio = @ - 1]
  /\ UNCHANGED <<ServerVars, CodeVars, IotVars, router, saved, tts_alive, emit_alive,
                 use_function_call_mode, stop_event, ws_closed, client_listen_mode,
                 asr_server_receive, llm_finish_task, dialogue,
                 tts_first_text_index, tts_last_text_index, close_after_chat,
                 tts_queue, audio_play_queue, workers, emitter, hist>>

\* What speech_to_text returns: "" (also when the recognition failed), a
\* text of punctuation only, a text with words.
AsrTexts == {<<>>, <<"p">>, <<"a">>}

\* a remove_punctuation_and_length that removes blanks only
remove_punctuation_and_length_blanks_only(text) == text

\* remove_punctuation_and_length(text), its second result: the text without
\* punctuation and blanks, and nothing for the word Yeah
remove_punctuation_and_length(text) ==
  LET result == SelectSeq(text, LAMBDA c : c \notin {"p", "q"})
  IN IF result = <<"Y">> THEN <<>> ELSE result

\* speech_to_text is called for the utterance of turn t (0: of no turn)
AsrEv(t, text) == [Ev("asr", t, 0, 0, 0) EXCEPT !.text = text]

\* ... with a longer utterance in which speech_to_text finds no text
AudioAsrEmpty(v, text) ==
  /\ VoiceStop(v) /\ asr_audio + 1 >= MinAsrFrames
  /\ Len(remove_punctuation_and_length(text)) = 0
  /\ load' = [load EXCEPT !.audio = @ - 1]
  /\ hist' = Append(hist, AsrEv(0, text))
  /\ UNCHANGED <<ServerVars, CodeVars, IotVars, router, saved, tts_alive, emit_alive,
                 use_function_call_mode, stop_event, ws_closed, client_listen_mode,
                 asr_server_receive, llm_finish_task, dialogue,
                 tts_first_text_index, tts_last_text_index, close_after_chat,
                 tts_queue, audio_play_queue, workers, emitter>>

\* ... in which speech_to_text finds a text: startToChat
AudioAsrText(v, text, out) ==
  /\ VoiceStop(v) /\ asr_audio + 1 >= MinAsrFrames
  /\ Len(remove_punctuation_and_length(text)) > 0
  /\ load.turns > 0
  /\ load' = [load EXCEPT !.audio = @ - 1, !.turns = @ - 1]
  /\ startToChat(<<AsrEv(NumTurns + 1, text)>>, "asr", out, FALSE)
  /\ UNCHANGED <<ServerVars, CodeVars, IotVars, router, saved, tts_alive, emit_alive,
                 use_function_call_mode, client_listen_mode, dialogue,
                 close_after_chat, tts_queue, emitter>>

\* Inbound text frames that are no message of the protocol: "malformed" (no
\* JSON), "number" (JSON, an integer), "unknown_type" (an object whose type
\* no branch handles), "no_type" (an object without "type", or JSON that is
\* no object: msg_json["type"] raises)
TextKinds == {"malformed", "number", "unknown_type", "no_type"}

\* handleTextMessage with such a frame.  An exception other than
\* JSONDecodeError leaves handleTextMessage and the loop of
\* handle_connection: ws.close(), return.
HandleProtocolError(kind) ==
  /\ Routing /\ load.misc > 0
  /\ load' = [load EXCEPT !.misc = @ - 1]
  /\ hist' = IF kind \in {"malformed", "number"}
             THEN Append(hist, Ev("echo", 0, 0, 0, 0))
             ELSE IF kind = "no_type" THEN Append(hist, CloseEv("raise", 0))
             ELSE hist
  /\ IF kind = "no_type"
     THEN ws_closed' = TRUE /\ Teardown
     ELSE UNCHANGED <<ws_closed, router, saved>>
  /\ UNCHANGED <<ServerVars, CodeVars, IotVars, tts_alive, emit_alive, use_function_call_mode,
                 stop_event, client_abort, client_listen_mode,
                 client_have_voice, client_voice_stop, client_no_voice_last_time,
                 client_have_voice_last_time,
                 asr_audio, asr_server_receive, llm_finish_task, dialogue,
                 tts_first_text_index, tts_last_text_index, close_after_chat,
                 tts_queue, audio_play_queue, workers, emitter>>

\* The peer closes the websocket.  "ok": the iteration over the websocket
\* ends; "error": it raises ConnectionClosed, and close() is called.
PeerClose(how) ==
  /\ Routing /\ load.misc > 0
  /\ load' = [load EXCEPT !.misc = @ - 1]
  /\ ws_closed' = TRUE
  /\ stop_event' = (how = "error")
  /\ hist' = Append(hist, CloseEv("peer", 0))
  /\ Teardown
  /\ UNCHANGED <<ServerVars, CodeVars, IotVars, tts_alive, emit_alive, use_function_call_mode,
                 client_abort, client_listen_mode,
                 client_have_voice, client_voice_stop, client_no_voice_last_time,
                 client_have_voice_last_time,
                 asr_audio, asr_server_receive, llm_finish_task, dialogue,
                 tts_first_text_index, tts_last_text_index, close_after_chat,
                 tts_queue, audio_play_queue, workers, emitter>>

\* the websocket was closed by close(): the iteration over it ends
RouterExit ==
  /\ router = "loop" /\ ws_closed
  /\ Teardown
  /\ UNCHANGED <<ServerVars, CodeVars, IotVars, tts_alive, emit_alive, use_function_call_mode,
                 stop_event, ws_closed, client_abort, client_listen_mode,
                 client_have_voice, client_voice_stop, client_no_voice_last_time,
                 client_have_voice_last_time,
                 asr_audio, asr_server_receive, llm_finish_task, dialogue,
                 tts_first_text_index, tts_last_text_index, close_after_chat,
                 tts_queue, audio_play_queue, workers, emitter, load, hist>>

\* --------------------------------------------------------- server, actions
\* auth_header.startswith("Bearer ")
startswith_Bearer(h) == Len(h) >= 2 /\ h[1] = "Bearer"

\* an authenticate that does not look at allowed_devices
authenticate_tokens_only(headers) ==
  IF ~auth_config.enabled THEN TRUE
  ELSE IF ~startswith_Bearer(headers.authorization) THEN FALSE
  ELSE headers.authorization[2] \in auth_config.tokens

\* AuthMiddleware.authenticate: TRUE, or FALSE for AuthenticationError
authenticate(headers) ==
  IF ~auth_config.enabled THEN TRUE
  ELSE IF auth_config.allowed_devices # {}
          /\ headers.device_id \in auth_config.allowed_devices THEN TRUE
  ELSE IF ~startswith_Bearer(headers.authorization) THEN FALSE
  ELSE headers.authorization[2] \in auth_config.tokens

\* MemoryProvider.init_memory: role_id, and load_memory, which replaces
\* short_momery only when the file has an entry for the role
init_memory(m, role_id) ==
  [m EXCEPT !.role_id = role_id,
            !.short_momery = IF role_id \in m.stored THEN m.file[role_id] ELSE @]

\* MemoryProvider.save_memory of a transcript of the device dev with more
\* than the system message: the summary of it and of short_momery becomes
\* short_momery and is written to the file under role_id
save_memory(m, dev) ==
  LET short == m.short_momery \cup {dev}
  IN [m EXCEPT !.short_momery = short,
               !.file = [@ EXCEPT ![m.role_id] = short],
               !.stored = @ \cup {m.role_id}]

SessionVars ==
  <<IotVars, CodeVars, use_function_call_mode, stop_event, ws_closed, router, saved, tts_alive,
    emit_alive, client_abort, client_listen_mode, client_have_voice,
    client_voice_stop, client_no_voice_last_time,
                 client_have_voice_last_time, asr_audio,
    asr_server_receive, llm_finish_task, dialogue, tts_first_text_index,
    tts_last_text_index, close_after_chat, tts_queue, audio_play_queue,
    workers, emitter, load, hist>>

LogEv(k, c, sid, role, mem) ==
  [k |-> k, c |-> c, sid |-> sid, role |-> role, mem |-> mem]

\* handle_connection up to its loop: authenticate; on AuthenticationError
\* ws.close() and return; else init_memory, and the welcome frame from
\* config["xiaozhi"] with session_id set to the new session id (c)
Handshake(c, headers) ==
  /\ conns[c].phase = "new"
  /\ IF authenticate(headers)
     THEN /\ conns' = [conns EXCEPT ![c] =
                         [@ EXCEPT !.phase = "open",
                                   !.device_id = headers.device_id]]
          /\ memory' = init_memory(memory, headers.device_id)
          /\ xiaozhi_session_id' = c
          /\ server_log' = Append(server_log, LogEv("welcome", c, c, "", {}))
     ELSE /\ conns' = [conns EXCEPT ![c] = [@ EXCEPT !.phase = "rejected"]]
          /\ UNCHANGED <<memory, xiaozhi_session_id, server_log>>
  /\ UNCHANGED <<auth_config, SessionVars>>

NumLog(k) == Cardinality({n \in DOMAIN server_log : server_log[n].k = k})

\* handleHelloMessage: json.dumps(conn.welcome_msg), the dict of the config
handleHelloMessage(c) ==
  /\ conns[c].phase = "open" /\ NumLog("hello") < MaxHello
  /\ server_log' =
       Append(server_log, LogEv("hello", c, xiaozhi_session_id, "", {}))
  /\ UNCHANGED <<auth_config, conns, xiaozhi_session_id, memory, SessionVars>>

\* a turn of the session: chat() appends the user turn and calls
\* memory.query_memory
ServerChat(c) ==
  /\ conns[c].phase = "open" /\ NumLog("query") < MaxChats
  /\ conns' = [conns EXCEPT ![c] = [@ EXCEPT !.chats = 1]]
  /\ server_log' = Append(server_log,
       LogEv("query", c, 0, memory.role_id, memory.short_momery))
  /\ UNCHANGED <<auth_config, xiaozhi_session_id, memory, SessionVars>>

\* handle_connection leaves its loop: memory.save_memory(dialogue), which
\* returns at once for a transcript of fewer than 2 messages
ServerClose(c) ==
  /\ conns[c].phase = "open"
  /\ conns' = [conns EXCEPT ![c] = [@ EXCEPT !.phase = "closed"]]
  /\ IF conns[c].chats > 0
     THEN /\ memory' = save_memory(memory, conns[c].device_id)
          /\ server_log' = Append(server_log,
               LogEv("save", c, 0, memory.role_id, memory'.short_momery))
     ELSE UNCHANGED <<memory, server_log>>
  /\ UNCHANGED <<auth_config, xiaozhi_session_id, SessionVars>>

\* ---------------------------------------------------------- capabilities
\* The device-capability registry of a session and the iot frames.
IotNames == {"Speaker", "Lamp"}

PropertyNames == {"volume", "power"}

\* value["type"] of a property in a descriptor
IotTypes == {"number", "boolean", "string"}

\* A value of a states frame as json.loads gives it: its Python type and
\* which value of the type it is.  val 0 is the default of __init__ (0,
\* False, ""), val 1 another value (50, 50.5, True, "x").
JsonValues == [type : {"int", "float", "bool", "str"}, val : {1}]

\* a dict with keys among S and values in X
Dicts(S, X) == UNION {[K -> X] : K \in SUBSET S}

\* the descriptors of an iot frame: name, properties (the declared type by
\* property name), methods (their names; each capability here has SetVolume)
Descriptors ==
  [name : IotNames, properties : Dicts(PropertyNames, IotTypes),
   methods : {{"SetVolume"}}]

\* the states of an iot frame
States == [name : IotNames, state : Dicts(PropertyNames, JsonValues)]

StatesFrames == UNION {[1..n -> States] : n \in 1..MaxStates}

\* IotDescriptor.__init__: the value a property starts with
DefaultValue(type) ==
  IF type = "number" THEN [type |-> "int", val |-> 0]
  ELSE IF type = "boolean" THEN [type |-> "bool", val |-> 0]
  ELSE [type |-> "str", val |-> 0]

\* IotDescriptor(name, description, properties, methods).  A property keeps
\* name, description and value; type is what the descriptor declared, which
\* the code does not keep.
IotDescriptor(descriptor) ==
  [properties |->
     [k \in DOMAIN descriptor.properties |->
        [type |-> descriptor.properties[k],
         value |-> DefaultValue(descriptor.properties[k])]],
   methods |-> descriptor.methods]

\* conn.iot_descriptors[name] = iot_descriptor
Register(descs, descriptor) ==
  [n \in DOMAIN descs \cup {descriptor.name} |->
     IF n = descriptor.name THEN IotDescriptor(descriptor) ELSE descs[n]]

\* type(v) != type(property_item["value"]) does not hold
same_type(v, value) == v.type = value.type

\* the body of the loop of handleIotStatus for one state: each property of
\* the capability named takes the value the state has for it, if the
\* types agree
apply_state(descs, state) ==
  IF state.name \notin DOMAIN descs THEN descs
  ELSE [descs EXCEPT ![state.name].properties =
          [k \in DOMAIN descs[state.name].properties |->
             LET property_item == descs[state.name].properties[k]
             IN IF k \in DOMAIN state.state
                   /\ same_type(state.state[k], property_item.value)
                THEN [property_item EXCEPT !.value = state.state[k]]
                ELSE property_item]]

RECURSIVE handleIotStatus(_, _)
handleIotStatus(descs, states) ==
  IF states = <<>> THEN descs
  ELSE handleIotStatus(apply_state(descs, Head(states)), Tail(states))

\* handleTextMessage, an iot frame with descriptors (one descriptor):
\* handleIotDescriptors registers it and sends SetVolume to the Speaker, if
\* one is registered that has the method
HandleIotDescriptors(descriptor) ==
  /\ Routing /\ load.iot > 0
  /\ load' = [load EXCEPT !.iot = @ - 1]
  /\ iot_descriptors' = Register(iot_descriptors, descriptor)
  /\ iot_states' = <<>>
  /\ hist' = IF "Speaker" \in DOMAIN iot_descriptors'
                /\ "SetVolume" \in iot_descriptors'["Speaker"].methods
             THEN Append(hist, Ev("iot", 0, 0, 0, 0)) ELSE hist
  /\ UNCHANGED <<ServerVars, CodeVars, use_function_call_mode, stop_event, ws_closed,
                 router, saved, tts_alive, emit_alive, client_abort,
                 client_listen_mode, client_have_voice, client_voice_stop,
                 client_no_voice_last_time, client_have_voice_last_time,
                 asr_audio, asr_server_receive, llm_finish_task, dialogue,
                 tts_first_text_index, tts_last_text_index, close_after_chat,
                 tts_queue, audio_play_queue, workers, emitter>>

\* handleTextMessage, an iot frame with states: handleIotStatus
HandleIotStates(states) ==
  /\ Routing /\ load.iot > 0
  /\ load' = [load EXCEPT !.iot = @ - 1]
  /\ iot_descriptors' = handleIotStatus(iot_descriptors, states)
  /\ iot_states' = states
  /\ UNCHANGED <<ServerVars, CodeVars, use_function_call_mode, stop_event, ws_closed,
                 router, saved, tts_alive, emit_alive, client_abort,
                 client_listen_mode, client_have_voice, client_voice_stop,
                 client_no_voice_last_time, client_have_voice_last_time,
                 asr_audio, asr_server_receive, llm_finish_task, dialogue,
                 tts_first_text_index, tts_last_text_index, close_after_chat,
                 tts_queue, audio_play_queue, workers, emitter, hist>>

\* ---------------------------------------------------------- auth codes
Threads == 1..MaxThreads

\* what random.randint draws, six digits taken as one code
Codes == 1..MaxCodes

\* the operations of the generator that callers use
Ops == {"generate_code", "remove_code", "clear_codes"}

\* a dict without the keys S
Without(dict, S) == [c \in DOMAIN dict \ S |-> dict[c]]

\* a dict with the value v under the key c
With(dict, c, v) == [k \in DOMAIN dict \cup {c} |-> IF k = c THEN v ELSE dict[k]]

\* what is not the generator
NoCodeVars ==
  <<ServerVars, IotVars, use_function_call_mode, stop_event, ws_closed, router,
    saved, tts_alive, emit_alive, client_abort, client_listen_mode,
    client_have_voice, client_voice_stop, client_no_voice_last_time,
    client_have_voice_last_time, asr_audio, asr_server_receive,
    llm_finish_task, dialogue, tts_first_text_index, tts_last_text_index,
    close_after_chat, tts_queue, audio_play_queue, workers, emitter, load,
    hist>>

\* thread th goes to pc
Goto(th, pc) == threads' = [threads EXCEPT ![th].pc = pc]

\* thread th leaves the with block and returns (or raises)
Leave(th) == _lock' = 0 /\ Goto(th, "idle")

\* a thread calls generate_code(), remove_code(code) or clear_codes()
Call(th, op, code) ==
  /\ threads[th].pc = "idle"
  /\ threads' = [threads EXCEPT ![th] =
                   [pc |-> "call", op |-> op,
                    code |-> IF op = "remove_code" THEN code ELSE 0,
                    expired |-> {}]]
  /\ UNCHANGED <<_used_codes, _code_timestamps, _lock, now>>
  /\ UNCHANGED NoCodeVars

\* with self._lock: the thread enters when the lock is free
Acquire(th) ==
  /\ threads[th].pc = "call" /\ _lock = 0
  /\ _lock' = th
  /\ Goto(th, threads[th].op)
  /\ UNCHANGED <<_used_codes, _code_timestamps, now>>
  /\ UNCHANGED NoCodeVars

\* _clean_expired_codes: the codes older than the timeout are listed
CleanList(th) ==
  /\ threads[th].pc = "generate_code"
  /\ threads' = [threads EXCEPT
       ![th].pc = "clean",
       ![th].expired = {c \in DOMAIN _code_timestamps :
                          now - _code_timestamps[c] > CodeTimeout}]
  /\ UNCHANGED <<_used_codes, _code_timestamps, _lock, now>>
  /\ UNCHANGED NoCodeVars

\* _clean_expired_codes: one listed code leaves the set and the dict; a code
\* that is not in the set raises KeyError out of generate_code
CleanOne(th) ==
  /\ threads[th].pc = "clean" /\ threads[th].expired # {}
  /\ \E c \in threads[th].expired :
       IF c \in _used_codes
       THEN /\ _used_codes' = _used_codes \ {c}
            /\ _code_timestamps' = Without(_code_timestamps, {c})
            /\ threads' = [threads EXCEPT ![th].expired = @ \ {c}]
            /\ UNCHANGED _lock
       ELSE /\ Leave(th)
            /\ UNCHANGED <<_used_codes, _code_timestamps>>
  /\ UNCHANGED now
  /\ UNCHANGED NoCodeVars

\* _clean_expired_codes returns
CleanDone(th) ==
  /\ threads[th].pc = "clean" /\ threads[th].expired = {}
  /\ Goto(th, "draw")
  /\ UNCHANGED <<_used_codes, _code_timestamps, _lock, now>>
  /\ UNCHANGED NoCodeVars

\* a generate_code that takes whatever random draws
NotUsed_any(code) == TRUE

\* generate_code: code not in self._used_codes
NotUsed(code) == code \notin _used_codes

\* generate_code: a code is drawn; one that is not in use joins the set, any
\* other is drawn again
Draw(th, code) ==
  /\ threads[th].pc = "draw"
  /\ IF NotUsed(code)
     THEN /\ _used_codes' = _used_codes \cup {code}
          /\ threads' = [threads EXCEPT ![th].pc = "stamp", ![th].code = code]
     ELSE UNCHANGED <<_used_codes, threads>>
  /\ UNCHANGED <<_code_timestamps, _lock, now>>
  /\ UNCHANGED NoCodeVars

\* generate_code: the time of the code is recorded
Stamp(th) ==
  /\ threads[th].pc = "stamp"
  /\ _code_timestamps' = With(_code_timestamps, threads[th].code, now)
  /\ Goto(th, "return")
  /\ UNCHANGED <<_used_codes, _lock, now>>
  /\ UNCHANGED NoCodeVars

\* generate_code returns the code
ReturnCode(th) ==
  /\ threads[th].pc = "return"
  /\ Leave(th)
  /\ UNCHANGED <<_used_codes, _code_timestamps, now>>
  /\ UNCHANGED NoCodeVars

\* remove_code: a code in use leaves the set, any other returns False
RemoveUsed(th) ==
  /\ threads[th].pc = "remove_code"
  /\ IF threads[th].code \in _used_codes
     THEN /\ _used_codes' = _used_codes \ {threads[th].code}
          /\ Goto(th, "remove_stamp")
          /\ UNCHANGED _lock
     ELSE /\ Leave(th)
          /\ UNCHANGED _used_codes
  /\ UNCHANGED <<_code_timestamps, now>>
  /\ UNCHANGED NoCodeVars

\* remove_code: its time leaves the dict, and True is returned
RemoveStamp(th) ==
  /\ threads[th].pc = "remove_stamp"
  /\ _code_timestamps' = Without(_code_timestamps, {threads[th].code})
  /\ Leave(th)
  /\ UNCHANGED <<_used_codes, now>>
  /\ UNCHANGED NoCodeVars

\* clear_codes: the set is cleared
ClearUsed(th) ==
  /\ threads[th].pc = "clear_codes"
  /\ _used_codes' = {}
  /\ Goto(th, "clear_stamps")
  /\ UNCHANGED <<_code_timestamps, _lock, now>>
  /\ UNCHANGED NoCodeVars

\* clear_codes: the dict is cleared
ClearStamps(th) ==
  /\ threads[th].pc = "clear_stamps"
  /\ _code_timestamps' = <<>>
  /\ Leave(th)
  /\ UNCHANGED <<_used_codes, now>>
  /\ UNCHANGED NoCodeVars

\* a day passes
Tick ==
  /\ now < MaxDays
  /\ now' = now + 1
  /\ UNCHANGED <<_used_codes, _code_timestamps, _lock, threads>>
  /\ UNCHANGED NoCodeVars

\* -------------------------------------------------------------- specification
Worker ==
  \E t \in Turns :
    \/ ChatStart(t)
    \/ ChatLLMError(t)
    \/ \E delta \in Deltas : ChatDelta(t, delta)
    \/ \E delta \in MarkdownDeltas : ChatMarkdownDelta(t, delta)
    \/ \E parse \in Parses : ChatEndMarkdown(t, parse)
    \/ ChatEnd(t)
    \/ ChatToolDelta(t)
    \/ ChatAndClose(t)
    \/ \E action \in ToolActions : ToolResult(t, action)

TtsThread == \E res \in TtsResults, n \in 1..MaxFrames : TtsTake(res, n)

Emitter == EmitStart \/ EmitFrame \/ EmitEnd \/ EmitFail

Router ==
  \/ HandleAbort
  \/ \E mode \in ListenModes, state \in {"start", "stop", "detect"} :
       HandleListen(mode, state)
  \/ \E mode \in ListenModes : HandleListenNoState(mode)
  \/ \E mode \in ListenModes, out \in StartOutcomes : HandleListenText(mode, out)
  \/ AudioDropped
  \/ \E v \in VadOutcomes : AudioSilence(v)
  \/ \E v \in VadOutcomes, out \in StartOutcomes \ {"exit"} : AudioIdle(v, out)
  \/ \E v \in VadOutcomes : AudioVoice(v)
  \/ \E v \in VadOutcomes : AudioStopShort(v)
  \/ \E v \in VadOutcomes, text \in AsrTexts : AudioAsrEmpty(v, text)
  \/ \E v \in VadOutcomes, text \in AsrTexts, out \in StartOutcomes :
       AudioAsrText(v, text, out)
  \/ \E kind \in TextKinds : HandleProtocolError(kind)
  \/ \E how \in {"ok", "error"} : PeerClose(how)
  \/ RouterExit

Next == Worker \/ TtsThread \/ Emitter \/ Router

Spec == Init /\ [][Next]_vars

\* the server and its connections; the pipeline of the sessions is left out
NoLoad ==
  [turns |-> 0, aborts |-> 0, deltas |-> 0, depth |-> 0, listen |-> 0,
   audio |-> 0, misc |-> 0, md |-> 0, iot |-> 0,
     suspended |-> 0]

ServerInit ==
  /\ Session
  /\ load = NoLoad
  /\ auth_config \in AuthConfigs
  /\ conns = [c \in Conns |-> NoConn]
  /\ xiaozhi_session_id = 0
  /\ memory = NoMemory
  /\ server_log = <<>>

ServerNext ==
  \E c \in Conns :
    \/ \E headers \in Headers : Handshake(c, headers)
    \/ handleHelloMessage(c)
    \/ ServerChat(c)
    \/ ServerClose(c)

ServerSpec == ServerInit /\ [][ServerNext]_vars

\* one session and the iot frames the device sends it
IotInit ==
  /\ Session
  /\ load = [NoLoad EXCEPT !.iot = MaxIot]
  /\ NoServer

IotNext ==
  \/ \E descriptor \in Descriptors : HandleIotDescriptors(descriptor)
  \/ \E states \in StatesFrames : HandleIotStates(states)

IotSpec == IotInit /\ [][IotNext]_vars

\* the generator of auth codes and the threads that call it
CodeInit ==
  /\ Session
  /\ load = NoLoad
  /\ NoServer

CodeNext ==
  \/ \E th \in Threads, op \in Ops, code \in Codes : Call(th, op, code)
  \/ \E th \in Threads : Acquire(th)
  \/ \E th \in Threads : CleanList(th)
  \/ \E th \in Threads : CleanOne(th)
  \/ \E th \in Threads : CleanDone(th)
  \/ \E th \in Threads, code \in Codes : Draw(th, code)
  \/ \E th \in Threads : Stamp(th)
  \/ \E th \in Threads : ReturnCode(th)
  \/ \E th \in Threads : RemoveUsed(th)
  \/ \E th \in Threads : RemoveStamp(th)
  \/ \E th \in Threads : ClearUsed(th)
  \/ \E th \in Threads : ClearStamps(th)
  \/ Tick

CodeSpec == CodeInit /\ [][CodeNext]_vars

\* ------------------------------------------------------------ the wire, read
H == DOMAIN hist

IsStart(n) == hist[n].k = "sentence_start"

IsEnd(n) == hist[n].k = "sentence_end"

IsAudio(n) == hist[n].k = "audio"

\* a stop written by sendAudioMessage / by handleAbortMessage
IsStop(n) == hist[n].k = "stop" /\ hist[n].t # 0

IsAbort(n) == hist[n].k = "stop" /\ hist[n].t = 0

\* the frames of one segment: the q-th segment queued for the reply of turn t
SameSegment(m, n) == hist[m].t = hist[n].t /\ hist[m].q = hist[n].q

Between(m, n) == {x \in H : m < x /\ x < n}

C2_NoAudioAfterAbort ==
  \A a, n \in H :
    (IsAbort(a) /\ a < n /\ IsAudio(n)) => hist[n].t \notin hist[a].ab

\* ------------------------------------------------------------------- C3
\* C3: the stop of handleAbortMessage is the only stop of an aborted reply:
\* after the abort sendAudioMessage writes no stop for a reply that was
\* active at the abort.
C3_OneStopAfterAbort ==
  \A a, n \in H :
    (IsAbort(a) /\ a < n /\ IsStop(n)) => hist[n].t \notin hist[a].ab

\* ------------------------------------------------------------------- C4
\* C4: the step of a worker that finds client_abort set in its generation
\* loop appends no turn to the transcript and queues no segment.
C4_AbortedWorkerAddsNothing ==
  [][\A t \in Turns :
       (client_abort /\ \E delta \in Deltas : ChatDelta(t, delta))
         => (dialogue' = dialogue /\ tts_queue' = tts_queue)]_vars

\* ------------------------------------------------------------------- C5
\* the reply of turn t was never active at an abort
NotAborted(t) == \A a \in H : IsAbort(a) => t \notin hist[a].ab

\* C5: the stop of a completed reply follows the sentence_end of its last
\* segment: once sendAudioMessage has written the stop of a reply that was
\* not aborted, no sentence_start and no sentence_end of that reply follows.
C5_StopIsLast ==
  \A s, n \in H :
    (IsStop(s) /\ s < n /\ hist[n].t = hist[s].t /\ NotAborted(hist[s].t))
      => ~IsStart(n) /\ ~IsEnd(n)

\* ------------------------------------------------------------------- C6
IsAsr(n) == hist[n].k = "asr"

\* at position n the reply to a recognized utterance is still due: its turn
\* began with an ASR call and a reply to speak (a generation worker or a
\* music file), and neither its stop nor an abort stop has been written
ReplyDue(n) ==
  \E m \in H :
    /\ m < n /\ hist[m].k = "turn" /\ hist[m].src = "asr"
    /\ hist[m].w \in {"chat", "fc", "end_chat", "music"}
    /\ \A x \in Between(m, n) :
         ~IsAbort(x) /\ ~(IsStop(x) /\ hist[x].t = hist[m].t)

\* C6: speech_to_text is not called while the reply to a recognized
\* utterance is still due.
C6_NoAsrDuringReply == \A n \in H : IsAsr(n) => ~ReplyDue(n)

\* ------------------------------------------------------------------- C7
\* C7: at most one generation worker of the session is running.
C7_OneWorker == Cardinality({t \in Turns : Running(t)}) <= 1

\* ------------------------------------------------------------------- C8
\* nothing of any reply is left in the pipeline
Quiet ==
  /\ \A t \in Turns : ~Running(t)
  /\ tts_queue = <<>> /\ audio_play_queue = <<>>
  /\ emitter.pc = "idle"

\* the LLM call (or the memory query) of the worker of a turn raised
IsLlmError(n) == hist[n].k = "llm_error" /\ hist[n].d = 0

\* no turn began and no listen frame arrived after position n
NothingSuspends(n) ==
  \A x \in H : x > n => hist[x].k \notin {"turn", "listen"}

\* C8: when the LLM call of a turn fails, no assistant turn of that turn is
\* in the transcript, and when the pipeline has drained a stop has been
\* written for the turn and ingest is enabled again.
C8_LlmErrorEndsTurn ==
  \A n \in H :
    IsLlmError(n) =>
      /\ \A k \in DOMAIN dialogue :
           ~(dialogue[k].role = "assistant" /\ dialogue[k].t = hist[n].t)
      /\ (Quiet /\ ~stop_event)
           => \E s \in H : s > n /\ hist[s].k = "stop"
                                /\ (hist[s].t = hist[n].t \/ IsAbort(s))
      /\ (Quiet /\ ~stop_event /\ NothingSuspends(n)) => asr_server_receive

\* ------------------------------------------------------------------- C9
\* the item the emitter holds is what is left of a finished reply that was
\* not aborted: the workers have returned and nothing else is queued
LastOfReply ==
  /\ emitter.pc = "frames"
  /\ llm_finish_task /\ \A t \in Turns : ~Running(t)
  /\ tts_queue = <<>> /\ audio_play_queue = <<>>
  /\ NotAborted(emitter.item.t)

\* C9: a segment whose synthesis timed out gets no audio frame, and the
\* reply is terminated all the same: when the emitter is done with the last
\* item of a finished reply and that item is a timed-out segment, the stop
\* is written and ingest is enabled.
C9_TimeoutStillStops ==
  /\ [](\A n \in H : (IsAudio(n) /\ hist[n].i = 0) => hist[n].d = 0 /\ hist[n].q = 1)
  /\ [][(EmitEnd /\ ~emitter.item.txt /\ LastOfReply)
          => (/\ \E n \in DOMAIN hist' : n > Len(hist) /\ hist'[n].k = "stop"
              /\ asr_server_receive')]_vars

\* ------------------------------------------------------------------- C10
\* the LLM call of the worker of turn t raised
Failed(t) == \E n \in H : hist[n].k = "llm_error" /\ hist[n].t = t

\* C10: ingest suspended for a turn is enabled again when the turn is over,
\* whatever its outcome: when the pipeline has drained after the last turn
\* (whose LLM call did not fail) and no listen frame came after it,
\* asr_server_receive is true.
C10_IngestResumes ==
  \A n \in H :
    (hist[n].k = "turn" /\ ~Failed(hist[n].t) /\ NothingSuspends(n)
       /\ Quiet /\ ~stop_event)
      => asr_server_receive

\* ------------------------------------------------------------------- C11
\* C11: when the emitter takes an item from audio_play_queue while
\* client_abort is set, it writes nothing for it: the step that takes the
\* item leaves the wire as it is.
C11_AbortedItemAbandoned ==
  [][(EmitStart /\ client_abort) => hist' = hist]_vars

\* ------------------------------------------------------------------- C12
IsTurn(n) == hist[n].k = "turn"

IsClose(n) == hist[n].k = "close"

\* a stop of the reply of turn t has been written before position n
StopBefore(t, n) == \E s \in H : s < n /\ IsStop(s) /\ hist[s].t = t

\* C12: after a text that equals an exit command a closing segment is
\* spoken, and the websocket is closed only after its stop: the close of
\* check_direct_exit for a turn is preceded by a stop of that turn.
C12_ExitSpeaksThenCloses ==
  \A n \in H :
    (IsClose(n) /\ hist[n].src = "exit") => StopBefore(hist[n].t, n)

\* ------------------------------------------------------------------- C13
\* C13: after end_chat the session is closed after the stop of the closing
\* reply and not before.  For a session whose only turn is the one the
\* classifier answers with end_chat: no close by sendAudioMessage follows
\* the turn without a stop of the closing reply before it, and when that
\* stop has been written and chat_and_close has returned the websocket is
\* closed.
C13_EndChatClosesAfterStop ==
  \A n \in H :
    (/\ IsTurn(n) /\ hist[n].w = "end_chat" /\ hist[n].src # "idle"
     /\ NumTurns = 1 /\ NotAborted(hist[n].t)) =>
      /\ \A c \in H :
           (c > n /\ IsClose(c) /\ hist[c].src = "reply")
             => StopBefore(hist[n].t, c)
      /\ (StopBefore(hist[n].t, Len(hist) + 1) /\ ~Running(hist[n].t))
           => ws_closed

\* ------------------------------------------------------------------- C14
\* the idle timeout has fed its prompt to startToChat
IdleTurn(n) == IsTurn(n) /\ hist[n].src = "idle"

\* C14: the idle timeout feeds its prompt to startToChat at most once in a
\* session; from then on close_after_chat is set; the session is not closed
\* by sendAudioMessage before the stop of the reply to the prompt, and it
\* is closed once that stop has been written.
C14_IdleClosesAfterFarewell ==
  /\ Cardinality({n \in H : IdleTurn(n)}) <= 1
  /\ \A n \in H :
       IdleTurn(n) =>
         /\ close_after_chat
         /\ \A c \in H :
              (c > n /\ IsClose(c) /\ hist[c].src = "reply")
                => StopBefore(hist[n].t, c)
         /\ StopBefore(hist[n].t, Len(hist) + 1) => ws_closed

\* ------------------------------------------------------------------- C15
\* C15: when handle_connection has left its loop, for whatever reason,
\* stop_event is set, memory.save_memory has been called exactly once and
\* the websocket is closed.
C15_TeardownComplete ==
  router = "done" => (stop_event /\ saved = 1 /\ ws_closed)

\* ------------------------------------------------------------------- C16
\* C16: after close() has closed the websocket every task of the session
\* terminates: when handle_connection has returned, the workers have
\* returned and nothing is left in the queues or in the emitter, so that no
\* thread of the session has a step left to take, _tts_priority_thread and
\* _audio_play_priority_thread have returned.
C16_TasksTerminate ==
  (stop_event /\ ws_closed /\ router = "done" /\ Quiet)
    => (~tts_alive /\ ~emit_alive)

\* ------------------------------------------------------------------- C17
\* what the handshake must offer to be accepted: auth is disabled, or the
\* device id is allowed, or the authorization header is "Bearer " followed
\* by a token of the token map (the token is what stands between the first
\* blank and the next one)
Acceptable(headers) ==
  \/ ~auth_config.enabled
  \/ headers.device_id \in auth_config.allowed_devices
  \/ \E token \in auth_config.tokens :
       /\ Len(headers.authorization) >= 2
       /\ <<headers.authorization[1], headers.authorization[2]>>
            = <<"Bearer", token>>

\* C17: a handshake is accepted exactly when it is acceptable; an accepted
\* connection is open and gets the welcome frame, a rejected one is closed
\* and gets no frame.
C17_AuthAcceptsExactly ==
  [][\A c \in Conns, headers \in Headers :
       Handshake(c, headers) =>
         IF Acceptable(headers)
         THEN /\ conns'[c].phase = "open"
              /\ Len(server_log') = Len(server_log) + 1
              /\ server_log'[Len(server_log')].k = "welcome"
              /\ server_log'[Len(server_log')].c = c
         ELSE /\ conns'[c].phase = "rejected"
              /\ server_log' = server_log]_vars

\* with auth enabled, one connection was accepted for its token (its device
\* is not allowed) and another one was rejected
C17_Witness ==
  /\ auth_config.enabled
  /\ \E c \in Conns :
       /\ conns[c].phase = "open"
       /\ conns[c].device_id \notin auth_config.allowed_devices
  /\ \E c \in Conns : conns[c].phase = "rejected"

\* ------------------------------------------------------------------- C18
\* C18: every welcome frame of a session, the first one and each one sent
\* again for a hello, carries the session id of that session.
C18_WelcomeOwnSessionId ==
  \A n \in DOMAIN server_log :
    server_log[n].k \in {"welcome", "hello"}
      => server_log[n].sid = server_log[n].c

\* ------------------------------------------------------------------- C19
\* C19: the memory a session of a device saves at teardown is stored under
\* the device id of that session, and the memory it queries is the one of
\* its device: stored under its device id and made of its conversations
\* only.
C19_MemoryPerDevice ==
  \A n \in DOMAIN server_log :
    LET e == server_log[n]
        dev == conns[e.c].device_id
    IN dev # "" =>
         /\ e.k = "save" => e.role = dev
         /\ e.k = "query" => (e.role = dev /\ e.mem \subseteq {dev})

\* ------------------------------------------------------------------- C20
\* the session but for the wire and for what the environment has left to send
PipelineVars ==
  <<use_function_call_mode, stop_event, ws_closed, router, saved, tts_alive,
    emit_alive, client_abort, client_listen_mode, client_have_voice,
    client_voice_stop, client_no_voice_last_time,
                 client_have_voice_last_time, asr_audio,
    asr_server_receive, llm_finish_task, dialogue, tts_first_text_index,
    tts_last_text_index, close_after_chat, tts_queue, audio_play_queue,
    workers, emitter>>

\* C20: a text frame that is no JSON, or JSON without a type the router
\* knows, is sent back, changes nothing of the session, and leaves the
\* session open and routing.
C20_ProtocolErrorEchoed ==
  [][\A kind \in TextKinds :
       HandleProtocolError(kind)
         => /\ hist' = Append(hist, Ev("echo", 0, 0, 0, 0))
            /\ UNCHANGED PipelineVars
            /\ Routing']_vars

\* ------------------------------------------------------------------- C21
\* C21: a listen frame that carries only a mode is accepted: it sets
\* client_listen_mode, leaves client_have_voice, client_voice_stop,
\* asr_server_receive and the utterance buffer as they are, and the session
\* stays open and routing.
C21_ListenModeOnlyAccepted ==
  [][\A mode \in {"auto", "manual"} :
       HandleListenNoState(mode)
         => /\ client_listen_mode' = mode
            /\ UNCHANGED <<client_have_voice, client_voice_stop,
                           asr_server_receive, asr_audio>>
            /\ Routing']_vars

\* ------------------------------------------------------------------- C22
IsListen(n, state) == hist[n].k = "listen" /\ hist[n].src = state

\* C22: after listen start, MinAsrFrames audio frames or more, and listen
\* stop, the utterance is handed to ASR without a further inbound frame:
\* when the buffer held MinAsrFrames frames at the listen stop and the
\* session is open with nothing in its pipeline, so that only an inbound
\* frame can make it move, speech_to_text has been called since.
C22_ListenStopReachesAsr ==
  \A b, e \in H :
    (/\ b < e /\ IsListen(b, "start") /\ IsListen(e, "stop")
     /\ hist[e].i >= MinAsrFrames
     /\ Routing /\ Quiet)
      => \E a \in H : a > e /\ IsAsr(a)

\* ------------------------------------------------------------------- C24
\* the handler of an audio frame that finds client_voice_stop set
AtVoiceStop(v) ==
  \/ AudioStopShort(v)
  \/ \E text \in AsrTexts : AudioAsrEmpty(v, text)
  \/ \E text \in AsrTexts, out \in StartOutcomes : AudioAsrText(v, text, out)

\* C24: when handleAudioMessage finds client_voice_stop set, with fewer
\* than MinAsrFrames frames in the buffer (the frame at hand counted) ASR is
\* not called and ingest stays enabled; otherwise speech_to_text is called,
\* client_abort is cleared and, when the intent layer leaves the text to
\* the generation, ingest stays suspended for the reply; in both cases the
\* buffer is empty and
\* client_have_voice, client_voice_stop and client_have_voice_last_time are
\* reset afterwards.
C24_VoiceStopHandled ==
  [][\A v \in VadOutcomes :
       AtVoiceStop(v) =>
         /\ asr_audio' = 0
         /\ ~client_have_voice' /\ ~client_voice_stop'
         /\ client_have_voice_last_time' = 0
         /\ asr_audio + 1 < MinAsrFrames
              => (hist' = hist /\ asr_server_receive')
         /\ asr_audio + 1 >= MinAsrFrames
              => /\ Len(hist') > Len(hist)
                 /\ hist'[Len(hist) + 1].k = "asr"
                 /\ ~client_abort'
                 /\ (\E t \in Turns : /\ ~Running(t) /\ Running(t)'
                                      /\ workers'[t].kind \in {"chat", "fc"})
                      => ~asr_server_receive']_vars

\* an utterance was recognized and its reply is being generated: the buffer
\* is empty, the VAD flags are reset and ingest is suspended
C24_Witness ==
  /\ \E n \in H : IsTurn(n) /\ hist[n].src = "asr"
                          /\ hist[n].w \in {"chat", "fc"}
  /\ asr_audio = 0 /\ ~client_have_voice /\ ~client_voice_stop
  /\ ~asr_server_receive /\ ~client_abort

\* ------------------------------------------------------------------- C25
\* C25: in auto mode client_voice_stop goes from false to true only after a
\* speech window of the utterance, silence_threshold_ms or more after the
\* last one: the handler of a frame in which the VAD sets client_voice_stop
\* finds the time stamp of a speech window in client_have_voice_last_time.
C25_StopOnlyAfterSpeech ==
  [][\A v \in VadOutcomes :
       (AtVoiceStop(v) /\ client_listen_mode = "auto" /\ ~client_voice_stop)
         => client_have_voice_last_time # 0]_vars

\* ------------------------------------------------------------------- C26
\* C26: client_have_voice_last_time never decreases.
C26_LastVoiceTimeMonotonic ==
  [][client_have_voice_last_time' >= client_have_voice_last_time]_vars

\* ------------------------------------------------------------------- C23
\* no abort frame was handled after position n
NoAbortSince(n) == \A a \in H : IsAbort(a) => a < n

\* C23: the text of a listen detect frame is replied to as a recognized
\* utterance is, also when client_abort was left set by an earlier abort:
\* when the intent layer leaves the text to the generation, the LLM call
\* succeeds, the worker queues a segment, no abort follows and the session
\* is open, then once the pipeline has drained the reply has been spoken:
\* a sentence_start of it is on the wire.
C23_DetectTextIsSpoken ==
  \A n \in H :
    (/\ IsTurn(n) /\ hist[n].src = "text" /\ hist[n].w \in {"chat", "fc"}
     /\ NoAbortSince(n) /\ ~Failed(hist[n].t)
     /\ workers[hist[n].t].nq > 0
     /\ Quiet /\ Routing /\ ~stop_event)
      => \E m \in H : m > n /\ IsStart(m) /\ hist[m].t = hist[n].t

\* ------------------------------------------------------------------- C27
\* C27: every tool turn of the transcript carries the id of a tool-call
\* record of an assistant turn that stands before it in the transcript.
C27_ToolTurnHasCall ==
  \A k \in DOMAIN dialogue :
    dialogue[k].role = "tool" =>
      /\ dialogue[k].id # 0
      /\ \E j \in DOMAIN dialogue :
           /\ j < k /\ dialogue[j].role = "assistant"
           /\ dialogue[j].id = dialogue[k].id

\* a tool turn is in the transcript
C27_Witness == \E k \in DOMAIN dialogue : dialogue[k].role = "tool"

\* ------------------------------------------------------------------- C28
\* the first content begins with the fence or holds the tag
opens_tool_call(content) ==
  Head(content) = "F" \/ \E n \in DOMAIN content : content[n] = "T"

\* tool_call_flag of the worker of turn t is set
InToolMode(t) == Running(t) /\ Top(t).pc \in {"md", "tool"}

\* C28: a first content delta that begins with the fence or holds the tag,
\* and a tool_call delta, put the generation in tool-call mode, and nothing
\* received in that mode is dispatched to TTS: the step that takes such a
\* delta leaves the worker in tool-call mode and tts_queue as it is, and so
\* does the step that ends the stream of a markdown-style call.
C28_ToolCallNotSpoken ==
  [][\A t \in Turns :
       /\ \A delta \in MarkdownDeltas :
            (ChatMarkdownDelta(t, delta) /\ opens_tool_call(delta))
              => (InToolMode(t)' /\ tts_queue' = tts_queue)
       /\ ChatToolDelta(t) => (InToolMode(t)' /\ tts_queue' = tts_queue)
       /\ \A parse \in Parses :
            (ChatEndMarkdown(t, parse) /\ Depth(t) = 0)
              => tts_queue' = tts_queue]_vars

\* ------------------------------------------------------------------- C29
\* C29: when a tool returns REQLLM with a text, two turns are appended
\* before the generation is re-entered, an assistant turn with the
\* tool-call record and then a tool turn with the same id, and the
\* re-entered generation appends no user turn.
C29_ReqLlmAppendsTwo ==
  [][\A t \in Turns :
       /\ ToolResult(t, "REQLLM") =>
            /\ Len(dialogue') = Len(dialogue) + 2
            /\ SubSeq(dialogue', 1, Len(dialogue)) = dialogue
            /\ dialogue'[Len(dialogue) + 1].role = "assistant"
            /\ dialogue'[Len(dialogue) + 1].id # 0
            /\ dialogue'[Len(dialogue) + 2].role = "tool"
            /\ dialogue'[Len(dialogue) + 2].id = dialogue'[Len(dialogue) + 1].id
            /\ Running(t)' /\ Top(t)'.tool_call /\ Top(t)'.pc = "start"
       /\ (ChatStart(t) /\ Top(t).tool_call) => dialogue' = dialogue]_vars

\* a re-entered generation has begun to stream, and the tool turn is the
\* last turn of the transcript
C29_Witness ==
  /\ \E t \in Turns : Running(t) /\ Top(t).tool_call /\ Top(t).pc = "stream"
  /\ dialogue[Len(dialogue)].role = "tool"

Frames(t) == {workers[t].stack[n] : n \in DOMAIN workers[t].stack}

\* the reply text up to the last terminator seen
UpToLastTerminator(f) == SubSeq(f.text, 1, last_punct_pos(f.text) + 1)

\* The raw spans of the segments emitted during streaming are
\* [0, p1), [p1, p2), ... up to processed_chars: their concatenation is the
\* reply text up to processed_chars.
EmittedPrefix(f) == SubSeq(f.text, 1, f.pchars)

\* C31 as stated: in every activation the concatenation of the raw spans of
\* the segments emitted so far is the reply text up to the last terminator
\* seen.
C31_SpansCoverPrefix ==
  \A t \in Turns : \A f \in Frames(t) : EmittedPrefix(f) = UpToLastTerminator(f)

\* the worker of turn t handles a delta in its loop and stays in the loop
InLoop(t) ==
  /\ Running(t) /\ Top(t).pc = "stream"
  /\ Running(t)' /\ Top(t)'.pc = "stream" /\ Depth(t)' = Depth(t)

\* the stream of chat / of the outermost chat_with_function_calling of turn
\* t ends without a tool call
StreamEnds(t) ==
  /\ Running(t) /\ Top(t).pc = "stream" /\ Depth(t) = 0
  /\ load' = load
  /\ ~Running(t)' \/ Top(t)'.pc = "close"

\* the text the stripped form of which is not empty
Speakable(text) == get_string_no_punctuation_or_emoji(text) # <<>>

\* C31, amended: a delta handled in the loop emits at most one segment; if
\* it emits one, its raw span begins where the last one ended and ends at
\* the last terminator seen; if it emits none, the text between the spans
\* emitted and the last terminator seen is empty once stripped.  At the end
\* of the stream the text after the spans emitted is emitted once, as the
\* tail, if it is not empty once stripped and the session is not closed,
\* and not at all otherwise.
C31_SpansArePrefix ==
  [][\A t \in Turns :
       /\ InLoop(t) =>
            LET f == Top(t)
                g == Top(t)'
                emitted == workers'[t].nq - workers[t].nq
            IN /\ emitted \in {0, 1}
               /\ emitted = 1 =>
                    /\ g.pchars > f.pchars
                    /\ EmittedPrefix(g) = UpToLastTerminator(g)
                    /\ Speakable(SubSeq(g.text, f.pchars + 1, g.pchars))
               /\ emitted = 0 =>
                    /\ g.pchars = f.pchars
                    /\ ~Speakable(SubSeq(g.text, g.pchars + 1,
                                         Len(UpToLastTerminator(g))))
       /\ StreamEnds(t) =>
            workers'[t].nq - workers[t].nq =
              IF Speakable(From(Top(t).text, Top(t).pchars)) /\ ~stop_event
              THEN 1 ELSE 0
  ]_vars

\* a worker has emitted a segment, and the text it has seen since ends in a
\* terminator but is empty once stripped
C31_Witness ==
  \E t \in Turns :
    /\ Running(t) /\ Top(t).pc = "stream"
    /\ Top(t).idx >= 1
    /\ Top(t).pchars < Len(UpToLastTerminator(Top(t)))

\* ------------------------------------------------------------------ C32
\* C32: within one reply the segments handed to TTS carry the indices 1, 2,
\* 3, ...: the segment a worker submits as its q-th has text_index q (so no
\* index is used twice), also when _handle_function_result queues the
\* response of a tool and a residual tail follows it.
C32_IndicesIncrease ==
  \A n \in DOMAIN tts_queue : tts_queue[n].i = tts_queue[n].q

\* ------------------------------------------------------------------ C33
\* a JSON value has the type a descriptor declares
has_declared_type(v, type) ==
  IF type = "number" THEN v.type \in {"int", "float"}
  ELSE IF type = "boolean" THEN v.type = "bool"
  ELSE v.type = "str"

\* what a state updates: the properties of the capability it names for
\* which it has a value of the declared type
typed_update(descs, state) ==
  IF state.name \notin DOMAIN descs THEN descs
  ELSE [descs EXCEPT ![state.name].properties =
          [k \in DOMAIN descs[state.name].properties |->
             LET property_item == descs[state.name].properties[k]
             IN IF k \in DOMAIN state.state
                   /\ has_declared_type(state.state[k], property_item.type)
                THEN [property_item EXCEPT !.value = state.state[k]]
                ELSE property_item]]

RECURSIVE typed_updates(_, _)
typed_updates(descs, states) ==
  IF states = <<>> THEN descs
  ELSE typed_updates(typed_update(descs, Head(states)), Tail(states))

\* every property's current value has its declared type
ValuesTyped(descs) ==
  \A n \in DOMAIN descs : \A k \in DOMAIN descs[n].properties :
    has_declared_type(descs[n].properties[k].value, descs[n].properties[k].type)

\* an iot frame with states is handled in this step
IotStatesHandled == load'.iot < load.iot /\ iot_states' # <<>>

\* C33: an iot frame with states updates exactly the properties of
\* registered capabilities for which it has a value of the declared type,
\* and leaves every other property as it is; every property's current value
\* has its declared type.
C33_TypedUpdates ==
  [][/\ IotStatesHandled =>
          iot_descriptors' = typed_updates(iot_descriptors, iot_states')
     /\ ValuesTyped(iot_descriptors')]_vars

\* ------------------------------------------------------------------ C34
\* what this step adds to hist
Added == {n \in DOMAIN hist' : n > Len(hist)}

\* The step is the handling of an inbound frame in which speech_to_text is
\* called / in which the intent classifier is asked: handle_connection takes
\* the next frame when the handler has returned.
ReaderRecognizes == \E n \in Added : hist'[n].k = "asr"

ReaderClassifies ==
  /\ ~use_function_call_mode
  /\ \E n \in Added : hist'[n].k = "turn" /\ hist'[n].w # "exit"

\* C34: the reader of inbound frames does not wait for pipeline work: no
\* handler of a frame does the ASR recognition or the intent classification
\* of an utterance itself, and while a generation worker runs an abort
\* frame can be handled.
C34_ReaderNeverBlocks ==
  [][/\ ~ReaderRecognizes
     /\ ~ReaderClassifies
     /\ (Routing /\ load.aborts > 0 /\ \E t \in Turns : Running(t))
          => ENABLED HandleAbort]_vars

\* ------------------------------------------------------------------ C35
\* the transcript has a turn that the reply of turn t put there
InTranscript(t) == \E k \in DOMAIN dialogue : dialogue[k].t = t

\* C35: for a turn the intent layer handles (an exit command, or the
\* classifier answers play_music) no generation worker is started and the
\* transcript gets nothing; in function_call mode the classifier is not
\* asked, and every turn that is no exit command goes to
\* chat_with_function_calling.
C35_HandledTurnsNotGenerated ==
  \A n \in H : IsTurn(n) =>
    LET t == hist[n].t
    IN /\ hist[n].w \in {"exit", "music", "nomusic"} =>
            workers[t].kind = "none" /\ ~InTranscript(t)
       /\ use_function_call_mode =>
            /\ hist[n].w \in {"exit", "fc"}
            /\ hist[n].w = "fc" => workers[t].kind = "fc"

\* a piece of music was played to its end for a turn, and a later turn was
\* generated
C35_Witness ==
  \E n, m \in H :
    /\ IsTurn(n) /\ hist[n].w = "music"
    /\ \E e \in H : IsStop(e) /\ hist[e].t = hist[n].t
    /\ IsTurn(m) /\ n < m /\ hist[m].w = "chat"

\* ------------------------------------------------------------------ C36
\* an audio frame is handled (not dropped) in this step
AudioHandled == load'.audio < load.audio

\* ... one without voice, with none before: only then the idle timer is
\* left set
SilentFrameHandled == AudioHandled /\ client_no_voice_last_time' # 0

\* ... one with which the VAD detects voice first
FirstVoiceHandled == AudioHandled /\ ~client_have_voice /\ client_have_voice'

\* C36: while no voice is present the utterance buffer holds no more than
\* PreRoll frames, the last ones received; so when voice is first detected
\* the buffer holds at most PreRoll frames of pre-roll (and the frame at
\* hand).
C36_PreRollBounded ==
  [][/\ SilentFrameHandled =>
          asr_audio' = IF asr_audio < PreRoll THEN asr_audio + 1 ELSE PreRoll
     /\ FirstVoiceHandled =>
          asr_audio <= PreRoll /\ asr_audio' <= PreRoll + 1]_vars

\* ------------------------------------------------------------------ C37
\* the text has no character but punctuation and blanks
NoWords(text) == \A n \in DOMAIN text : text[n] \in {"p", "q"}

\* speech_to_text is called in this step and returns a text without words
AsrFindsNothing ==
  \E n \in Added : hist'[n].k = "asr" /\ NoWords(hist'[n].text)

\* C37: when ASR returns an empty text, or one that is empty without its
\* punctuation and blanks, there is no utterance: no stt frame is written,
\* no turn begins and no worker is started, the transcript is as it was,
\* the utterance buffer is empty and ingest goes on.
C37_EmptyTextIsNoUtterance ==
  [][AsrFindsNothing =>
       /\ \A n \in Added : hist'[n].k \notin {"stt", "turn"}
       /\ workers' = workers
       /\ dialogue' = dialogue
       /\ asr_audio' = 0
       /\ asr_server_receive']_vars

\* ASR has returned a text of punctuation only, and the session takes the
\* frames that follow
C37_Witness ==
  /\ \E n \in H : IsAsr(n) /\ hist[n].text = <<"p">>
  /\ asr_audio > 0

\* ------------------------------------------------------------------ C38
\* an audio frame arrives while ingest is suspended
SuspendedFrameHandled ==
  ~asr_server_receive /\ load'.suspended < load.suspended

\* C38: an audio frame that arrives while ingest is suspended changes nothing
\* of the session: buffer, VAD flags, idle timer, cancellation flag,
\* transcript, queues and workers stay as they are.
C38_SuspendedFrameDropped ==
  [][SuspendedFrameHandled =>
       UNCHANGED <<IotVars, use_function_call_mode, stop_event, ws_closed,
                   router, saved, tts_alive, emit_alive, client_abort,
                   client_listen_mode, client_have_voice, client_voice_stop,
                   client_no_voice_last_time, client_have_voice_last_time,
                   asr_audio, asr_server_receive, llm_finish_task, dialogue,
                   tts_first_text_index, tts_last_text_index,
                   close_after_chat, tts_queue, audio_play_queue, workers,
                   emitter, hist>>]_vars

\* In the session of a client that may abort and speak, a frame was dropped,
\* and the reply during which it came is still running and not cancelled.
C38_Witness ==
  /\ load.aborts = MaxAborts /\ load.audio > 0
  /\ load.suspended < MaxSuspended
  /\ ~asr_server_receive /\ ~client_abort
  /\ \E t \in Turns : Running(t)

\* ------------------------------------------------------------------ C39
\* thread th takes a code as its own
Takes(th) == threads[th].pc = "draw" /\ threads'[th].pc = "stamp"

\* thread th returns from generate_code
Returns(th) == threads[th].pc = "return" /\ threads'[th].pc = "idle"

\* C39: whenever no call holds the lock, the keys of _code_timestamps are
\* the codes of _used_codes; and the code that generate_code takes and
\* returns was not in _used_codes before, so that no two outstanding codes
\* are equal.
C39_CodesConsistent ==
  /\ [](_lock = 0 => DOMAIN _code_timestamps = _used_codes)
  /\ [][\A th \in Threads :
          /\ Takes(th) => threads'[th].code \notin _used_codes
          /\ Returns(th) => /\ threads[th].code \in _used_codes
                            /\ threads[th].code \in DOMAIN _code_timestamps]_vars

\* two codes are outstanding, the later of them returned by a thread that
\* found the other in use, and the clock is past the timeout
C39_Witness ==
  /\ _lock = 0 /\ Cardinality(_used_codes) = 2
  /\ \E th \in Threads :
       /\ threads[th].pc = "idle" /\ threads[th].op = "generate_code"
       /\ threads[th].code \in _used_codes
       /\ \E c \in _used_codes :
            _code_timestamps[c] < _code_timestamps[threads[th].code]
  /\ now > CodeTimeout

====
